---------------------------- MODULE Spec2Model ----------------------------
(***************************************************************************)
(* A model of the football-analytics ingestion core:                       *)
(*   - the Opta reference catalog (src/parser/references.py),              *)
(*   - the accumulation store, i.e. the parquet load/merge functions of    *)
(*     EventsDataParser (src/parser/parse_events.py) and of StatsParser    *)
(*     (src/parser/parse_stats.py),                                        *)
(*   - the EventsDataParser object itself (construction, metadata          *)
(*     extraction, event/qualifier normalisation),                         *)
(*   - the StatsParser object (match id and lineup extraction),            *)
(*   - two ingestion processes merging into one output directory, each     *)
(*     merge split into its read of the file and its write of it.          *)
(*                                                                         *)
(* Python values are modelled as follows.  A dict is a TLA+ record whose   *)
(* DOMAIN is the set of keys present; d.get(k) returning None is the key   *)
(* being absent.  A pandas DataFrame is a record                           *)
(*     [cols |-> sequence of column names, rows |-> sequence of rows]      *)
(* whose rows are records over a subset of the columns: a column of cols   *)
(* that is missing from a row's DOMAIN is a null (None / NaN / NaT) cell.  *)
(* The positional index is the position in rows.  A call that can raise    *)
(* returns either Ok(v) or Raise(e).                                       *)
(***************************************************************************)
EXTENDS Integers, Sequences, FiniteSets, TLC

VARIABLES
    lookup,   \* the last Reference Catalog lookup: the code and what came back
    fs,       \* the output directory: for each parquet file, its state on disk
    call,     \* the last call of a store function or of a parser method:
              \* arguments, the file or the object before it, and outcome
    parser,   \* the parser object (EventsDataParser, StatsParser) in use
    ingest,   \* the caller's ingestion of that match: how far it has come
    faults,   \* the writes the environment has made fail so far
    procs     \* the processes merging into the store: where each is in its
              \* merge, and what has been merged so far

vars == <<lookup, fs, call, parser, ingest, faults, procs>>

----------------------------------------------------------------------------
(* Python helpers                                                          *)

\* A normal return with value v.
Ok(v) == [exc |-> "None", value |-> v]

\* An exception of class e leaving the function.
Raise(e) == [exc |-> e]

\* d.get(k, default) on a dict.
DictGet(d, k, default) == IF k \in DOMAIN d THEN d[k] ELSE default

\* The empty dict {}.
EmptyDict == [k \in {} |-> ""]

\* f"{n}" for an int n.
PyStr(n) == ToString(n)

\* The elements of a sequence, as a set.
Range(s) == {s[i] : i \in DOMAIN s}

----------------------------------------------------------------------------
(* Reference Catalog: src/parser/references.py                             *)

EVENT_TYPES ==
    (1 :> [name |-> "Pass", description |-> "Any pass attempted from one player to another"])
 @@ (2 :> [name |-> "Offside Pass", description |-> "Attempted pass to player in offside position"])
 @@ (3 :> [name |-> "Take On", description |-> "Attempted dribble past opponent"])
 @@ (4 :> [name |-> "Foul", description |-> "Foul committed resulting in free kick"])
 @@ (5 :> [name |-> "Out", description |-> "Ball goes out for throw-in or goal kick"])
 @@ (6 :> [name |-> "Corner Awarded", description |-> "Ball goes out for corner kick"])
 @@ (7 :> [name |-> "Tackle", description |-> "Dispossess opponent of ball"])
 @@ (8 :> [name |-> "Interception", description |-> "Intercept pass between opposition"])
 @@ (9 :> [name |-> "Turnover", description |-> "Unforced error/loss of possession (NO LONGER USED)"])
 @@ (10 :> [name |-> "Save", description |-> "Goalkeeper saves shot"])
 @@ (11 :> [name |-> "Claim", description |-> "Goalkeeper catches crossed ball"])
 @@ (12 :> [name |-> "Clearance", description |-> "Clear ball from defensive zone"])
 @@ (13 :> [name |-> "Miss", description |-> "Shot wide or over goal"])
 @@ (14 :> [name |-> "Post", description |-> "Ball hits frame of goal"])
 @@ (15 :> [name |-> "Attempt Saved", description |-> "Shot saved"])
 @@ (16 :> [name |-> "Goal", description |-> "Goal scored"])
 @@ (17 :> [name |-> "Card", description |-> "Yellow or red card shown"])
 @@ (18 :> [name |-> "Player off", description |-> "Substitution off"])
 @@ (19 :> [name |-> "Player on", description |-> "Substitution on"])
 @@ (20 :> [name |-> "Player retired", description |-> "Player forced to leave pitch"])
 @@ (21 :> [name |-> "Player returns", description |-> "Player returns after injury"])
 @@ (22 :> [name |-> "Player becomes goalkeeper", description |-> "Outfield player replaces GK"])
 @@ (23 :> [name |-> "Goalkeeper becomes player", description |-> "GK becomes outfield player"])
 @@ (24 :> [name |-> "Condition change", description |-> "Change in playing conditions"])
 @@ (25 :> [name |-> "Official change", description |-> "Referee or linesman replaced"])
 @@ (27 :> [name |-> "Start delay", description |-> "Stoppage in play"])
 @@ (28 :> [name |-> "End delay", description |-> "Stoppage ends, play resumes"])
 @@ (30 :> [name |-> "End", description |-> "End of match period"])
 @@ (32 :> [name |-> "Start", description |-> "Start of match period"])
 @@ (34 :> [name |-> "Team set up", description |-> "Team lineup; qualifiers show formation"])
 @@ (35 :> [name |-> "Player changed position", description |-> "Player moved to different position"])
 @@ (36 :> [name |-> "Player changed Jersey number", description |-> "Player forced to change shirt"])
 @@ (37 :> [name |-> "Collection End", description |-> "End of match data collection"])
 @@ (38 :> [name |-> "Temp_Goal", description |-> "Goal pending additional qualifiers"])
 @@ (39 :> [name |-> "Temp_Attempt", description |-> "Shot pending additional qualifiers"])
 @@ (40 :> [name |-> "Formation change", description |-> "Team alters formation"])
 @@ (41 :> [name |-> "Punch", description |-> "Goalkeeper punches ball clear"])
 @@ (42 :> [name |-> "Good Skill", description |-> "Good skill shown (NO LONGER USED)"])
 @@ (43 :> [name |-> "Deleted event", description |-> "Event deleted"])
 @@ (44 :> [name |-> "Aerial", description |-> "Aerial duel (50/50)"])
 @@ (45 :> [name |-> "Challenge", description |-> "Player fails to win ball in dribble"])
 @@ (47 :> [name |-> "Rescinded card", description |-> "Card rescinded post-match"])
 @@ (49 :> [name |-> "Ball recovery", description |-> "Team wins possession"])
 @@ (50 :> [name |-> "Dispossessed", description |-> "Player loses possession"])
 @@ (51 :> [name |-> "Error", description |-> "Player mistake losing ball"])
 @@ (52 :> [name |-> "Keeper pick-up", description |-> "Goalkeeper picks up ball"])
 @@ (53 :> [name |-> "Cross not claimed", description |-> "GK fails to catch cross"])
 @@ (54 :> [name |-> "Smother", description |-> "GK covers ball in box"])
 @@ (55 :> [name |-> "Offside provoked", description |-> "Defender triggers offside"])
 @@ (56 :> [name |-> "Shield ball opp", description |-> "Defender shields ball from opponent"])
 @@ (57 :> [name |-> "Foul throw-in", description |-> "Throw-in taken incorrectly"])
 @@ (58 :> [name |-> "Penalty faced", description |-> "GK faces penalty"])
 @@ (59 :> [name |-> "Keeper Sweeper", description |-> "Keeper off line to clear ball"])
 @@ (60 :> [name |-> "Chance missed", description |-> "Player in good position doesn't receive pass"])
 @@ (61 :> [name |-> "Ball touch", description |-> "Bad touch losing possession"])
 @@ (63 :> [name |-> "Temp_Save", description |-> "Save without full details"])
 @@ (64 :> [name |-> "Resume", description |-> "Match resumes after abandonment"])
 @@ (65 :> [name |-> "Contentious referee decision", description |-> "Major talking point by ref"])
 @@ (66 :> [name |-> "Possession Data", description |-> "Possession event every 5 mins"])
 @@ (67 :> [name |-> "50/50", description |-> "Duel for loose ball (GERMAN ONLY)"])
 @@ (68 :> [name |-> "Referee Drop Ball", description |-> "Ref stops, drops ball"])
 @@ (69 :> [name |-> "Failed to Block", description |-> "Attempt to block lost"])
 @@ (70 :> [name |-> "Injury Time Announcement", description |-> "Injury time awarded"])
 @@ (71 :> [name |-> "Coach Setup", description |-> "Coach type event"])
 @@ (72 :> [name |-> "Caught Offside", description |-> "Player in offside position"])
 @@ (73 :> [name |-> "Other Ball Contact", description |-> "Automated DFL event"])
 @@ (74 :> [name |-> "Blocked Pass", description |-> "Defender blocks pass"])

QUALIFIERS ==
    (1 :> [qualifier_id |-> 1, name |-> "Long ball", value_type |-> "Boolean", description |-> "Pass over 35 yards"])
 @@ (2 :> [qualifier_id |-> 2, name |-> "Cross", value_type |-> "Boolean", description |-> "Ball from wide areas into box"])
 @@ (3 :> [qualifier_id |-> 3, name |-> "Head pass", value_type |-> "Boolean", description |-> "Pass made with head"])
 @@ (4 :> [qualifier_id |-> 4, name |-> "Through ball", value_type |-> "Boolean", description |-> "Ball for attacking run"])
 @@ (5 :> [qualifier_id |-> 5, name |-> "Free kick taken", value_type |-> "Boolean", description |-> "Free kick taken"])
 @@ (6 :> [qualifier_id |-> 6, name |-> "Corner taken", value_type |-> "Boolean", description |-> "Corner kick taken"])
 @@ (7 :> [qualifier_id |-> 7, name |-> "Players caught offside", value_type |-> "Player ID", description |-> "Player in offside"])
 @@ (8 :> [qualifier_id |-> 8, name |-> "Goal disallowed", value_type |-> "Boolean", description |-> "Pass led to disallowed goal"])
 @@ (9 :> [qualifier_id |-> 9, name |-> "Penalty", value_type |-> "Boolean", description |-> "Penalty kick"])
 @@ (15 :> [qualifier_id |-> 15, name |-> "Head", value_type |-> "Boolean", description |-> "Action with head"])
 @@ (20 :> [qualifier_id |-> 20, name |-> "Right footed", value_type |-> "Boolean", description |-> "Shot with right foot"])
 @@ (21 :> [qualifier_id |-> 21, name |-> "Other body part", value_type |-> "Boolean", description |-> "Shot with other body part"])
 @@ (28 :> [qualifier_id |-> 28, name |-> "Own goal", value_type |-> "Boolean", description |-> "Own goal"])
 @@ (29 :> [qualifier_id |-> 29, name |-> "Assisted", value_type |-> "Boolean", description |-> "Shot had assist"])
 @@ (30 :> [qualifier_id |-> 30, name |-> "Involved", value_type |-> "Player IDs", description |-> "Players in lineup"])
 @@ (31 :> [qualifier_id |-> 31, name |-> "Yellow card", value_type |-> "Boolean", description |-> "Yellow card shown"])
 @@ (32 :> [qualifier_id |-> 32, name |-> "Second yellow", value_type |-> "Boolean", description |-> "Second yellow card"])
 @@ (33 :> [qualifier_id |-> 33, name |-> "Red card", value_type |-> "Boolean", description |-> "Red card shown"])
 @@ (34 :> [qualifier_id |-> 34, name |-> "Referee abuse", value_type |-> "Boolean", description |-> "Card for abuse to ref"])
 @@ (35 :> [qualifier_id |-> 35, name |-> "Argument", value_type |-> "Boolean", description |-> "Card for argument"])
 @@ (36 :> [qualifier_id |-> 36, name |-> "Fight", value_type |-> "Boolean", description |-> "Card for fight"])
 @@ (37 :> [qualifier_id |-> 37, name |-> "Time wasting", value_type |-> "Boolean", description |-> "Card for time wasting"])
 @@ (38 :> [qualifier_id |-> 38, name |-> "Excessive celebration", value_type |-> "Boolean", description |-> "Card for celebration"])
 @@ (39 :> [qualifier_id |-> 39, name |-> "Crowd interaction", value_type |-> "Boolean", description |-> "Card for crowd contact"])
 @@ (40 :> [qualifier_id |-> 40, name |-> "Other reason", value_type |-> "Boolean", description |-> "Card for unknown reason"])
 @@ (41 :> [qualifier_id |-> 41, name |-> "Injury", value_type |-> "Boolean", description |-> "Substitution for injury"])
 @@ (42 :> [qualifier_id |-> 42, name |-> "Tactical", value_type |-> "Boolean", description |-> "Substitution for tactics"])
 @@ (44 :> [qualifier_id |-> 44, name |-> "Player position", value_type |-> "Text", description |-> "GK/DEF/MID/FWD/SUB"])
 @@ (50 :> [qualifier_id |-> 50, name |-> "Official position", value_type |-> "1-4", description |-> "Referee/Linesman positions"])
 @@ (51 :> [qualifier_id |-> 51, name |-> "Official ID", value_type |-> "ID", description |-> "Unique official ID"])
 @@ (53 :> [qualifier_id |-> 53, name |-> "Injured player ID", value_type |-> "Player ID", description |-> "Injured player"])
 @@ (54 :> [qualifier_id |-> 54, name |-> "End cause", value_type |-> "1-100", description |-> "Reason for match end"])
 @@ (56 :> [qualifier_id |-> 56, name |-> "Zone", value_type |-> "Text", description |-> "Back/Left/Centre/Right"])
 @@ (57 :> [qualifier_id |-> 57, name |-> "End type", value_type |-> "Type", description |-> "End of match period"])
 @@ (59 :> [qualifier_id |-> 59, name |-> "Jersey number", value_type |-> "Integer", description |-> "Shirt number"])
 @@ (72 :> [qualifier_id |-> 72, name |-> "Left footed", value_type |-> "Boolean", description |-> "Shot with left foot"])
 @@ (88 :> [qualifier_id |-> 88, name |-> "High claim", value_type |-> "Boolean", description |-> "GK high claim"])
 @@ (89 :> [qualifier_id |-> 89, name |-> "1 on 1", value_type |-> "Boolean", description |-> "Attacker 1-on-1 with GK"])
 @@ (90 :> [qualifier_id |-> 90, name |-> "Deflected save", value_type |-> "Boolean", description |-> "GK deflected save"])
 @@ (91 :> [qualifier_id |-> 91, name |-> "Dive and deflect", value_type |-> "Boolean", description |-> "GK dive and deflect"])
 @@ (92 :> [qualifier_id |-> 92, name |-> "Catch", value_type |-> "Boolean", description |-> "GK catches"])
 @@ (93 :> [qualifier_id |-> 93, name |-> "Dive and catch", value_type |-> "Boolean", description |-> "GK dive and catch"])
 @@ (95 :> [qualifier_id |-> 95, name |-> "Back pass", value_type |-> "Boolean", description |-> "Illegal GK back pass"])
 @@ (106 :> [qualifier_id |-> 106, name |-> "Attacking pass", value_type |-> "Boolean", description |-> "Pass in opposition half"])
 @@ (107 :> [qualifier_id |-> 107, name |-> "Throw-in", value_type |-> "Boolean", description |-> "Throw-in taken"])
 @@ (108 :> [qualifier_id |-> 108, name |-> "Volley", value_type |-> "Boolean", description |-> "Shot on volley"])
 @@ (109 :> [qualifier_id |-> 109, name |-> "Overhead", value_type |-> "Boolean", description |-> "Overhead kick"])
 @@ (113 :> [qualifier_id |-> 113, name |-> "Strong", value_type |-> "Boolean", description |-> "Strong shot"])
 @@ (114 :> [qualifier_id |-> 114, name |-> "Weak", value_type |-> "Boolean", description |-> "Weak shot"])
 @@ (115 :> [qualifier_id |-> 115, name |-> "Rising", value_type |-> "Boolean", description |-> "Rising shot"])
 @@ (116 :> [qualifier_id |-> 116, name |-> "Dipping", value_type |-> "Boolean", description |-> "Dipping shot"])
 @@ (117 :> [qualifier_id |-> 117, name |-> "Lob", value_type |-> "Boolean", description |-> "Lob attempt"])
 @@ (120 :> [qualifier_id |-> 120, name |-> "Swerve left", value_type |-> "Boolean", description |-> "Swerve left"])
 @@ (121 :> [qualifier_id |-> 121, name |-> "Swerve right", value_type |-> "Boolean", description |-> "Swerve right"])
 @@ (122 :> [qualifier_id |-> 122, name |-> "Swerve moving", value_type |-> "Boolean", description |-> "Multiple swerves"])
 @@ (123 :> [qualifier_id |-> 123, name |-> "Keeper throw", value_type |-> "Boolean", description |-> "GK throws"])
 @@ (124 :> [qualifier_id |-> 124, name |-> "Goal kick", value_type |-> "Boolean", description |-> "Goal kick taken"])
 @@ (128 :> [qualifier_id |-> 128, name |-> "Punch", value_type |-> "Boolean", description |-> "GK punches"])
 @@ (130 :> [qualifier_id |-> 130, name |-> "Team formation", value_type |-> "Formation ID", description |-> "Team formation"])
 @@ (131 :> [qualifier_id |-> 131, name |-> "Team player formation", value_type |-> "1-11", description |-> "Player formation slot"])
 @@ (132 :> [qualifier_id |-> 132, name |-> "Dive", value_type |-> "Boolean", description |-> "Simulation/dive"])
 @@ (133 :> [qualifier_id |-> 133, name |-> "Deflection", value_type |-> "Boolean", description |-> "Shot deflection"])
 @@ (136 :> [qualifier_id |-> 136, name |-> "Keeper touched", value_type |-> "Boolean", description |-> "GK touched goal"])
 @@ (137 :> [qualifier_id |-> 137, name |-> "Keeper saved", value_type |-> "Boolean", description |-> "GK saved wide shot"])
 @@ (138 :> [qualifier_id |-> 138, name |-> "Hit woodwork", value_type |-> "Boolean", description |-> "Hit post/bar"])
 @@ (139 :> [qualifier_id |-> 139, name |-> "Own player", value_type |-> "Boolean", description |-> "Shot saved by defender"])
 @@ (140 :> [qualifier_id |-> 140, name |-> "Pass End X", value_type |-> "0-100", description |-> "X coordinate of pass end"])
 @@ (141 :> [qualifier_id |-> 141, name |-> "Pass End Y", value_type |-> "0-100", description |-> "Y coordinate of pass end"])
 @@ (144 :> [qualifier_id |-> 144, name |-> "Deleted event type", value_type |-> "Event ID", description |-> "Event to remove"])
 @@ (152 :> [qualifier_id |-> 152, name |-> "Direct", value_type |-> "Boolean", description |-> "Direct free kick"])
 @@ (153 :> [qualifier_id |-> 153, name |-> "Not past goal line", value_type |-> "Boolean", description |-> "Shot missed"])
 @@ (154 :> [qualifier_id |-> 154, name |-> "Intentional assist", value_type |-> "Boolean", description |-> "Intentional assist"])
 @@ (155 :> [qualifier_id |-> 155, name |-> "Chipped", value_type |-> "Boolean", description |-> "Chipped pass"])
 @@ (156 :> [qualifier_id |-> 156, name |-> "Lay-off", value_type |-> "Boolean", description |-> "Lay-off pass"])
 @@ (157 :> [qualifier_id |-> 157, name |-> "Launch", value_type |-> "Boolean", description |-> "Launch pass"])
 @@ (158 :> [qualifier_id |-> 158, name |-> "Persistent infringement", value_type |-> "Boolean", description |-> "Persistent foul"])
 @@ (159 :> [qualifier_id |-> 159, name |-> "Foul language", value_type |-> "Boolean", description |-> "Foul language"])
 @@ (160 :> [qualifier_id |-> 160, name |-> "Throw-in set piece", value_type |-> "Boolean", description |-> "Throw-in set piece"])
 @@ (161 :> [qualifier_id |-> 161, name |-> "Encroachment", value_type |-> "Boolean", description |-> "Encroachment"])
 @@ (162 :> [qualifier_id |-> 162, name |-> "Leaving field", value_type |-> "Boolean", description |-> "Leaving field"])
 @@ (163 :> [qualifier_id |-> 163, name |-> "Entering field", value_type |-> "Boolean", description |-> "Entering field"])
 @@ (164 :> [qualifier_id |-> 164, name |-> "Spitting", value_type |-> "Boolean", description |-> "Spitting"])
 @@ (165 :> [qualifier_id |-> 165, name |-> "Professional foul", value_type |-> "Boolean", description |-> "Professional foul"])
 @@ (166 :> [qualifier_id |-> 166, name |-> "Handling on line", value_type |-> "Boolean", description |-> "Handball block"])
 @@ (168 :> [qualifier_id |-> 168, name |-> "Flick-on", value_type |-> "Boolean", description |-> "Flick-on pass"])
 @@ (171 :> [qualifier_id |-> 171, name |-> "Rescinded card", value_type |-> "Boolean", description |-> "Card rescinded"])
 @@ (172 :> [qualifier_id |-> 172, name |-> "No impact on timing", value_type |-> "Boolean", description |-> "Booked off bench"])
 @@ (173 :> [qualifier_id |-> 173, name |-> "Parried safe", value_type |-> "Boolean", description |-> "GK parries safe"])
 @@ (174 :> [qualifier_id |-> 174, name |-> "Parried danger", value_type |-> "Boolean", description |-> "GK parries to danger"])
 @@ (175 :> [qualifier_id |-> 175, name |-> "Fingertip", value_type |-> "Boolean", description |-> "GK fingertip save"])
 @@ (176 :> [qualifier_id |-> 176, name |-> "Caught", value_type |-> "Boolean", description |-> "GK catches"])
 @@ (177 :> [qualifier_id |-> 177, name |-> "Collected", value_type |-> "Boolean", description |-> "GK collects"])
 @@ (178 :> [qualifier_id |-> 178, name |-> "Standing", value_type |-> "Boolean", description |-> "GK standing save"])
 @@ (179 :> [qualifier_id |-> 179, name |-> "Diving", value_type |-> "Boolean", description |-> "GK diving save"])
 @@ (180 :> [qualifier_id |-> 180, name |-> "Stooping", value_type |-> "Boolean", description |-> "GK stooping save"])
 @@ (181 :> [qualifier_id |-> 181, name |-> "Reaching", value_type |-> "Boolean", description |-> "GK reaching save"])
 @@ (182 :> [qualifier_id |-> 182, name |-> "Hands", value_type |-> "Boolean", description |-> "GK saves with hands"])
 @@ (183 :> [qualifier_id |-> 183, name |-> "Feet", value_type |-> "Boolean", description |-> "GK saves with feet"])
 @@ (184 :> [qualifier_id |-> 184, name |-> "Dissent", value_type |-> "Boolean", description |-> "Card for dissent"])
 @@ (186 :> [qualifier_id |-> 186, name |-> "Scored", value_type |-> "Stat", description |-> "Shot not saved = goal"])
 @@ (187 :> [qualifier_id |-> 187, name |-> "Saved", value_type |-> "Stat", description |-> "Shot saved"])
 @@ (188 :> [qualifier_id |-> 188, name |-> "Missed", value_type |-> "Stat", description |-> "Shot missed"])
 @@ (189 :> [qualifier_id |-> 189, name |-> "Player not visible", value_type |-> "Boolean", description |-> "Replay shown"])
 @@ (191 :> [qualifier_id |-> 191, name |-> "Off ball foul", value_type |-> "Boolean", description |-> "Off-ball foul"])
 @@ (192 :> [qualifier_id |-> 192, name |-> "Block by hand", value_type |-> "Boolean", description |-> "Block by hand"])
 @@ (194 :> [qualifier_id |-> 194, name |-> "Captain", value_type |-> "Player ID", description |-> "Team captain ID"])
 @@ (195 :> [qualifier_id |-> 195, name |-> "Pull back", value_type |-> "Boolean", description |-> "Pull back pass"])
 @@ (196 :> [qualifier_id |-> 196, name |-> "Switch of play", value_type |-> "Boolean", description |-> "Switch of play"])
 @@ (197 :> [qualifier_id |-> 197, name |-> "Team kit", value_type |-> "Kit ID", description |-> "Team kit ID"])
 @@ (198 :> [qualifier_id |-> 198, name |-> "GK hoof", value_type |-> "Boolean", description |-> "GK kicks long"])
 @@ (199 :> [qualifier_id |-> 199, name |-> "GK kick from hands", value_type |-> "Boolean", description |-> "GK kicks from hands"])
 @@ (200 :> [qualifier_id |-> 200, name |-> "Referee stop", value_type |-> "Boolean", description |-> "Referee stops"])
 @@ (201 :> [qualifier_id |-> 201, name |-> "Referee delay", value_type |-> "Boolean", description |-> "Referee delay"])
 @@ (202 :> [qualifier_id |-> 202, name |-> "Weather problem", value_type |-> "Boolean", description |-> "Weather stoppage"])
 @@ (203 :> [qualifier_id |-> 203, name |-> "Crowd trouble", value_type |-> "Boolean", description |-> "Crowd trouble"])
 @@ (204 :> [qualifier_id |-> 204, name |-> "Fire", value_type |-> "Boolean", description |-> "Fire in stadium"])
 @@ (205 :> [qualifier_id |-> 205, name |-> "Object thrown", value_type |-> "Boolean", description |-> "Object from crowd"])
 @@ (206 :> [qualifier_id |-> 206, name |-> "Spectator on pitch", value_type |-> "Boolean", description |-> "Spectator on pitch"])
 @@ (207 :> [qualifier_id |-> 207, name |-> "Awaiting decision", value_type |-> "Boolean", description |-> "Awaiting decision"])
 @@ (208 :> [qualifier_id |-> 208, name |-> "Referee injury", value_type |-> "Boolean", description |-> "Referee injury"])
 @@ (209 :> [qualifier_id |-> 209, name |-> "Game end", value_type |-> "Boolean", description |-> "Game finished"])
 @@ (210 :> [qualifier_id |-> 210, name |-> "Assist", value_type |-> "Boolean", description |-> "Pass is assist"])
 @@ (212 :> [qualifier_id |-> 212, name |-> "Length", value_type |-> "Yards", description |-> "Pass distance in yards"])
 @@ (213 :> [qualifier_id |-> 213, name |-> "Angle", value_type |-> "Radians", description |-> "Ball angle (0-6.28)"])
 @@ (214 :> [qualifier_id |-> 214, name |-> "Big chance", value_type |-> "Boolean", description |-> "Big chance"])
 @@ (215 :> [qualifier_id |-> 215, name |-> "Individual play", value_type |-> "Boolean", description |-> "Individual play"])
 @@ (217 :> [qualifier_id |-> 217, name |-> "2nd assisted", value_type |-> "Boolean", description |-> "2nd assist"])
 @@ (218 :> [qualifier_id |-> 218, name |-> "2nd assist", value_type |-> "Boolean", description |-> "Pass created assist"])
 @@ (219 :> [qualifier_id |-> 219, name |-> "Players on both posts", value_type |-> "Boolean", description |-> "Both posts covered"])
 @@ (220 :> [qualifier_id |-> 220, name |-> "Player on near post", value_type |-> "Boolean", description |-> "Near post covered"])
 @@ (221 :> [qualifier_id |-> 221, name |-> "Player on far post", value_type |-> "Boolean", description |-> "Far post covered"])
 @@ (222 :> [qualifier_id |-> 222, name |-> "No players on posts", value_type |-> "Boolean", description |-> "Posts uncovered"])
 @@ (223 :> [qualifier_id |-> 223, name |-> "In-swinger", value_type |-> "Boolean", description |-> "Corner in-swinger"])
 @@ (224 :> [qualifier_id |-> 224, name |-> "Out-swinger", value_type |-> "Boolean", description |-> "Corner out-swinger"])
 @@ (225 :> [qualifier_id |-> 225, name |-> "Straight", value_type |-> "Boolean", description |-> "Corner straight"])
 @@ (226 :> [qualifier_id |-> 226, name |-> "Suspended", value_type |-> "Boolean", description |-> "Game suspended"])
 @@ (227 :> [qualifier_id |-> 227, name |-> "Resume", value_type |-> "Boolean", description |-> "Game resumed"])
 @@ (228 :> [qualifier_id |-> 228, name |-> "Own shot blocked", value_type |-> "Boolean", description |-> "Own shot blocked"])
 @@ (230 :> [qualifier_id |-> 230, name |-> "GK X coordinate", value_type |-> "Coordinate", description |-> "GK position X"])
 @@ (231 :> [qualifier_id |-> 231, name |-> "GK Y coordinate", value_type |-> "Coordinate", description |-> "GK position Y"])
 @@ (236 :> [qualifier_id |-> 236, name |-> "Blocked pass", value_type |-> "Boolean", description |-> "Blocked pass"])
 @@ (237 :> [qualifier_id |-> 237, name |-> "Low", value_type |-> "Boolean", description |-> "Low goal kick"])
 @@ (238 :> [qualifier_id |-> 238, name |-> "Fair play", value_type |-> "Boolean", description |-> "Fair play kick"])
 @@ (240 :> [qualifier_id |-> 240, name |-> "GK start", value_type |-> "Boolean", description |-> "GK passes from hands"])
 @@ (241 :> [qualifier_id |-> 241, name |-> "Indirect", value_type |-> "Boolean", description |-> "Indirect free kick"])
 @@ (242 :> [qualifier_id |-> 242, name |-> "Obstruction", value_type |-> "Boolean", description |-> "Obstruction foul"])
 @@ (243 :> [qualifier_id |-> 243, name |-> "Unsporting behavior", value_type |-> "Boolean", description |-> "Unsporting"])
 @@ (244 :> [qualifier_id |-> 244, name |-> "Not retreating", value_type |-> "Boolean", description |-> "Not retreating"])
 @@ (245 :> [qualifier_id |-> 245, name |-> "Serious foul", value_type |-> "Boolean", description |-> "Serious foul"])
 @@ (246 :> [qualifier_id |-> 246, name |-> "Drinks break", value_type |-> "Boolean", description |-> "Drinks break"])
 @@ (254 :> [qualifier_id |-> 254, name |-> "Follows dribble", value_type |-> "Boolean", description |-> "Follows dribble"])
 @@ (255 :> [qualifier_id |-> 255, name |-> "Open roof", value_type |-> "Boolean", description |-> "Roof open"])
 @@ (256 :> [qualifier_id |-> 256, name |-> "Air humidity", value_type |-> "Percent", description |-> "Humidity %"])
 @@ (257 :> [qualifier_id |-> 257, name |-> "Air pressure", value_type |-> "Value", description |-> "Air pressure"])
 @@ (258 :> [qualifier_id |-> 258, name |-> "Sold out", value_type |-> "Boolean", description |-> "Stadium sold out"])
 @@ (259 :> [qualifier_id |-> 259, name |-> "Celsius degrees", value_type |-> "Temperature", description |-> "Temperature C"])
 @@ (260 :> [qualifier_id |-> 260, name |-> "Floodlight", value_type |-> "Boolean", description |-> "Floodlit"])
 @@ (261 :> [qualifier_id |-> 261, name |-> "1 on 1 chip", value_type |-> "Boolean", description |-> "1v1 chip goal"])
 @@ (262 :> [qualifier_id |-> 262, name |-> "Back heel", value_type |-> "Boolean", description |-> "Back heel goal"])
 @@ (263 :> [qualifier_id |-> 263, name |-> "Direct corner", value_type |-> "Boolean", description |-> "Direct corner goal"])
 @@ (264 :> [qualifier_id |-> 264, name |-> "Aerial foul", value_type |-> "Boolean", description |-> "Aerial foul"])
 @@ (265 :> [qualifier_id |-> 265, name |-> "Attempted tackle", value_type |-> "Boolean", description |-> "Tackle attempt"])
 @@ (266 :> [qualifier_id |-> 266, name |-> "Put through", value_type |-> "Boolean", description |-> "Put through"])
 @@ (267 :> [qualifier_id |-> 267, name |-> "Right arm save", value_type |-> "Boolean", description |-> "Saved with right arm"])
 @@ (268 :> [qualifier_id |-> 268, name |-> "Left arm save", value_type |-> "Boolean", description |-> "Saved with left arm"])
 @@ (269 :> [qualifier_id |-> 269, name |-> "Both arms save", value_type |-> "Boolean", description |-> "Saved with both arms"])
 @@ (270 :> [qualifier_id |-> 270, name |-> "Right leg save", value_type |-> "Boolean", description |-> "Saved with right leg"])
 @@ (271 :> [qualifier_id |-> 271, name |-> "Left leg save", value_type |-> "Boolean", description |-> "Saved with left leg"])
 @@ (272 :> [qualifier_id |-> 272, name |-> "Both legs save", value_type |-> "Boolean", description |-> "Saved with both legs"])
 @@ (273 :> [qualifier_id |-> 273, name |-> "Hit right post", value_type |-> "Boolean", description |-> "Hit right post"])
 @@ (274 :> [qualifier_id |-> 274, name |-> "Hit left post", value_type |-> "Boolean", description |-> "Hit left post"])
 @@ (275 :> [qualifier_id |-> 275, name |-> "Hit bar", value_type |-> "Boolean", description |-> "Hit crossbar"])
 @@ (278 :> [qualifier_id |-> 278, name |-> "Tap", value_type |-> "Boolean", description |-> "Free kick rolled"])
 @@ (279 :> [qualifier_id |-> 279, name |-> "Kick off", value_type |-> "Boolean", description |-> "Starting pass"])
 @@ (280 :> [qualifier_id |-> 280, name |-> "Fantasy assist type", value_type |-> "Event ID", description |-> "Assist event"])
 @@ (281 :> [qualifier_id |-> 281, name |-> "Fantasy assisted by", value_type |-> "Text", description |-> "Player assist"])
 @@ (282 :> [qualifier_id |-> 282, name |-> "Fantasy assist team", value_type |-> "Text", description |-> "Team assist"])
 @@ (283 :> [qualifier_id |-> 283, name |-> "Coach ID", value_type |-> "Coach ID", description |-> "Team coach ID"])
 @@ (284 :> [qualifier_id |-> 284, name |-> "Duel", value_type |-> "Boolean", description |-> "Blocked shot duel"])
 @@ (287 :> [qualifier_id |-> 287, name |-> "Over-arm", value_type |-> "Boolean", description |-> "Over-arm throw"])
 @@ (289 :> [qualifier_id |-> 289, name |-> "Denied goal-scoring opp", value_type |-> "Boolean", description |-> "Denied scoring"])
 @@ (290 :> [qualifier_id |-> 290, name |-> "Coach types", value_type |-> "Types", description |-> "Coach roles"])

\* The f-string placeholder both lookups fall back to.
UnknownName(code) == "Unknown (ID: " \o PyStr(code) \o ")"

\* A lookup that resolves every code to the description instead of the name.
get_type_name_Desc(type_id) ==
    Ok(DictGet(DictGet(EVENT_TYPES, type_id, EmptyDict), "description",
               UnknownName(type_id)))

\* OptaEventTypeReference.get_type_name:
\*   cls.EVENT_TYPES.get(type_id, {}).get("name", f"Unknown (ID: {type_id})")
get_type_name(type_id) ==
    Ok(DictGet(DictGet(EVENT_TYPES, type_id, EmptyDict), "name",
               UnknownName(type_id)))

\* OptaEventTypeReference.get_type_description.
get_type_description(type_id) ==
    Ok(DictGet(DictGet(EVENT_TYPES, type_id, EmptyDict), "description",
               "No description"))

\* OptaQualifierReference.get_qualifier_info: QUALIFIERS.get(qualifier_id).
\* The result is a sequence: <<>> is None, <<q>> is the QualifierReference q.
get_qualifier_info(qualifier_id) ==
    IF qualifier_id \in DOMAIN QUALIFIERS THEN <<QUALIFIERS[qualifier_id]>>
    ELSE <<>>

\* getattr(obj, attr) on a value that may be None: AttributeError on None.
GetAttr(obj, attr) ==
    IF obj = <<>> THEN Raise("AttributeError") ELSE Ok(obj[1][attr])

\* OptaQualifierReference.get_qualifier_name:
\*   qualifier.name if qualifier else f"Unknown (ID: {qualifier_id})"
\* (a dataclass instance is always truthy, None is falsy).
get_qualifier_name(qualifier_id) ==
    LET qualifier == get_qualifier_info(qualifier_id)
    IN  IF qualifier # <<>> THEN GetAttr(qualifier, "name")
        ELSE Ok(UnknownName(qualifier_id))

\* OptaQualifierReference.get_qualifier_description.
get_qualifier_description(qualifier_id) ==
    LET qualifier == get_qualifier_info(qualifier_id)
    IN  IF qualifier # <<>> THEN GetAttr(qualifier, "description")
        ELSE Ok("No description")

----------------------------------------------------------------------------
(* pandas                                                                  *)

\* pd.DataFrame(): no columns, no rows.
EmptyDataFrame == [cols |-> <<>>, rows |-> <<>>]

\* df.empty: some axis has length 0.
IsEmpty(df) == Len(df.cols) = 0 \/ Len(df.rows) = 0

\* s with the elements of t that s lacks appended, in t's order.
AppendNew(s, t) == s \o SelectSeq(t, LAMBDA c : c \notin Range(s))

\* pd.concat([a, b], join="inner", ignore_index=True): the rows of a, then
\* those of b, over the columns both have.
Concat_Inner(a, b) ==
    LET cols == SelectSeq(a.cols, LAMBDA c : c \in Range(b.cols))
    IN  [cols |-> cols,
         rows |-> [i \in DOMAIN (a.rows \o b.rows) |->
                     [c \in DOMAIN (a.rows \o b.rows)[i] \cap Range(cols) |->
                         (a.rows \o b.rows)[i][c]]]]

\* pd.concat([a, b], ignore_index=True): the rows of a, then those of b,
\* over the union of the columns (a's first); a cell of a column the row's
\* own frame lacks is null.
Concat(a, b) == [cols |-> AppendNew(a.cols, b.cols), rows |-> a.rows \o b.rows]

\* The cell of row r in column col: <<>> is null, <<v>> the value v.
Cell(r, col) == IF col \in DOMAIN r THEN <<r[col]>> ELSE <<>>

\* set(df[col].unique()): the distinct cells of a column.
Unique(df, col) == {Cell(df.rows[i], col) : i \in DOMAIN df.rows}

\* df[df[col].isin(values)] in place of its negation: the rows whose cell is
\* among values.
DropIsin_Keep(df, col, values) ==
    [cols |-> df.cols,
     rows |-> SelectSeq(df.rows, LAMBDA r : Cell(r, col) \in values)]

\* df[~df[col].isin(values)]: the rows whose cell is not among values.
DropIsin(df, col, values) ==
    [cols |-> df.cols,
     rows |-> SelectSeq(df.rows, LAMBDA r : Cell(r, col) \notin values)]

\* df[df[col].isin(values)]: the rows whose cell is among values.
KeepIsin(df, col, values) ==
    [cols |-> df.cols,
     rows |-> SelectSeq(df.rows, LAMBDA r : Cell(r, col) \in values)]

----------------------------------------------------------------------------
(* The parquet files of the output directory                               *)

\* The four accumulated tables, one parquet file each.
Tables == {"metadata", "events", "qualifiers", "stats"}

\* A path that does not exist.
AbsentFile == [state |-> "absent", df |-> EmptyDataFrame]

\* A file that exists and cannot be read as parquet (a truncated write).
CorruptFile == [state |-> "corrupt", df |-> EmptyDataFrame]

\* A parquet file holding df.
ParquetFile(df) == [state |-> "ok", df |-> df]

\* Path.exists() / os.path.exists().
Exists(file) == file.state # "absent"

\* pd.read_parquet(path) on an existing path.
read_parquet(file) ==
    IF file.state = "ok" THEN Ok(file.df) ELSE Raise("ArrowInvalid")

\* What the environment does to a df.to_parquet(path, index=False):
\*   "ok"       the file is replaced by df;
\*   "refused"  the write fails before the file is touched (no permission);
\*   "partial"  the write fails midway and leaves a truncated file.
WriteOutcomes == {"ok", "refused", "partial"}

\* df.to_parquet(path, index=False) under the environment's outcome wr.
to_parquet(file, df, wr) ==
    CASE wr = "ok"      -> [file |-> ParquetFile(df), exc |-> "None"]
      [] wr = "refused" -> [file |-> file, exc |-> "OSError"]
      [] wr = "partial" -> [file |-> CorruptFile, exc |-> "OSError"]

----------------------------------------------------------------------------
(* Accumulation Store: the load/merge functions                            *)
(*                                                                         *)
(* Each function is given the state of its own parquet file, its argument  *)
(* (<<>> is None, <<df>> a DataFrame) and the environment's outcome wr of  *)
(* the write, and yields the file afterwards, whether a write was          *)
(* attempted, and what the caller gets: Ok(table) or the exception.        *)
(* The mkdir of the output directory creates no table and is left out.     *)

\* EventsDataParser.load_or_append_metadata(df_metadata, output_dir).
load_or_append_metadata(file, df_metadata, wr) ==
    IF Len(df_metadata) = 0 THEN
        IF Exists(file) THEN
            [file |-> file, wrote |-> FALSE, result |-> read_parquet(file)]
        ELSE
            [file |-> file, wrote |-> FALSE, result |-> Raise("FileNotFoundError")]
    ELSE
        LET df_existing == read_parquet(file)
        IN  IF Exists(file) /\ df_existing.exc # "None" THEN
                \* read_parquet raised: the exception leaves the function
                [file |-> file, wrote |-> FALSE, result |-> df_existing]
            ELSE
                LET df_combined ==
                        IF Exists(file) THEN
                            Concat(df_existing.value, df_metadata[1])
                        ELSE df_metadata[1]
                    w == to_parquet(file, df_combined, wr)
                IN  [file |-> w.file, wrote |-> TRUE,
                     result |-> IF w.exc # "None" THEN Raise(w.exc)
                                ELSE Ok(df_combined)]

\* An events load that creates the missing file instead of raising.
load_or_append_events_Create(file, df_events, wr) ==
    IF Len(df_events) = 0 THEN
        IF Exists(file) THEN
            [file |-> file, wrote |-> FALSE, result |-> read_parquet(file)]
        ELSE
            [file |-> ParquetFile(EmptyDataFrame), wrote |-> FALSE,
             result |-> Ok(EmptyDataFrame)]
    ELSE
        LET df_existing == read_parquet(file)
        IN  IF Exists(file) /\ df_existing.exc # "None" THEN
                [file |-> file, wrote |-> FALSE, result |-> df_existing]
            ELSE
                LET df_combined ==
                        IF Exists(file) THEN
                            Concat(df_existing.value, df_events[1])
                        ELSE df_events[1]
                    w == to_parquet(file, df_combined, wr)
                IN  [file |-> w.file, wrote |-> TRUE,
                     result |-> IF w.exc # "None" THEN Raise(w.exc)
                                ELSE Ok(df_combined)]

\* EventsDataParser.load_or_append_events(df_events, output_dir).
load_or_append_events(file, df_events, wr) ==
    IF Len(df_events) = 0 THEN
        IF Exists(file) THEN
            [file |-> file, wrote |-> FALSE, result |-> read_parquet(file)]
        ELSE
            [file |-> file, wrote |-> FALSE, result |-> Raise("FileNotFoundError")]
    ELSE
        LET df_existing == read_parquet(file)
        IN  IF Exists(file) /\ df_existing.exc # "None" THEN
                [file |-> file, wrote |-> FALSE, result |-> df_existing]
            ELSE
                LET df_combined ==
                        IF Exists(file) THEN
                            Concat(df_existing.value, df_events[1])
                        ELSE df_events[1]
                    w == to_parquet(file, df_combined, wr)
                IN  [file |-> w.file, wrote |-> TRUE,
                     result |-> IF w.exc # "None" THEN Raise(w.exc)
                                ELSE Ok(df_combined)]

\* A qualifiers load that rewrites the file it has just read.
load_or_append_qualifiers_Rewrite(file, df_qualifiers, wr) ==
    IF Len(df_qualifiers) = 0 THEN
        IF Exists(file) THEN
            [file |-> ParquetFile(EmptyDataFrame), wrote |-> FALSE,
             result |-> read_parquet(file)]
        ELSE
            [file |-> file, wrote |-> FALSE, result |-> Raise("FileNotFoundError")]
    ELSE
        LET df_existing == read_parquet(file)
        IN  IF Exists(file) /\ df_existing.exc # "None" THEN
                [file |-> file, wrote |-> FALSE, result |-> df_existing]
            ELSE
                LET df_combined ==
                        IF Exists(file) THEN
                            Concat(df_existing.value, df_qualifiers[1])
                        ELSE df_qualifiers[1]
                    w == to_parquet(file, df_combined, wr)
                IN  [file |-> w.file, wrote |-> TRUE,
                     result |-> IF w.exc # "None" THEN Raise(w.exc)
                                ELSE Ok(df_combined)]

\* EventsDataParser.load_or_append_qualifiers(df_qualifiers, output_dir).
load_or_append_qualifiers(file, df_qualifiers, wr) ==
    IF Len(df_qualifiers) = 0 THEN
        IF Exists(file) THEN
            [file |-> file, wrote |-> FALSE, result |-> read_parquet(file)]
        ELSE
            [file |-> file, wrote |-> FALSE, result |-> Raise("FileNotFoundError")]
    ELSE
        LET df_existing == read_parquet(file)
        IN  IF Exists(file) /\ df_existing.exc # "None" THEN
                [file |-> file, wrote |-> FALSE, result |-> df_existing]
            ELSE
                LET df_combined ==
                        IF Exists(file) THEN
                            Concat(df_existing.value, df_qualifiers[1])
                        ELSE df_qualifiers[1]
                    w == to_parquet(file, df_combined, wr)
                IN  [file |-> w.file, wrote |-> TRUE,
                     result |-> IF w.exc # "None" THEN Raise(w.exc)
                                ELSE Ok(df_combined)]

\* The existing table as load_and_save_stats obtains it: the stored table,
\* or an empty DataFrame when the file is absent or the read raised (the
\* except clause logs the error and goes on).
StatsExisting(file) ==
    IF Exists(file) THEN
        LET r == read_parquet(file)
        IN  IF r.exc = "None" THEN r.value ELSE EmptyDataFrame
    ELSE EmptyDataFrame

\* A stats merge that appends without removing the stored rows of the
\* incoming matches.
StatsCombined_Union(existing_df, new_df) ==
    IF IsEmpty(existing_df) THEN new_df ELSE Concat(existing_df, new_df)

\* A stats merge that stores the new table in place of the stored one.
StatsCombined_Replace(existing_df, new_df) == new_df

\* The combined table of an effective stats merge: new_df alone when nothing
\* is stored, else the stored rows whose matchId is not among new_df's,
\* followed by new_df.
StatsCombined(existing_df, new_df) ==
    IF IsEmpty(existing_df) THEN new_df
    ELSE
        LET existing_match_ids == Unique(existing_df, "matchId")
            new_match_ids == Unique(new_df, "matchId")
            duplicate_matches == existing_match_ids \cap new_match_ids
            kept == IF duplicate_matches # {}
                    THEN DropIsin(existing_df, "matchId", duplicate_matches)
                    ELSE existing_df
        IN  Concat(kept, new_df)

\* A load_and_save_stats that merges whatever the append flag says.
load_and_save_stats_Always(file, new_df, append, wr) ==
    LET existing_df == StatsExisting(file)
    IN  IF Len(new_df) > 0 /\ ~IsEmpty(new_df[1]) THEN
            LET combined_df == StatsCombined(existing_df, new_df[1])
                w == to_parquet(file, combined_df, wr)
            IN  [file |-> w.file, wrote |-> TRUE, result |-> Ok(combined_df)]
        ELSE
            [file |-> file, wrote |-> FALSE, result |-> Ok(existing_df)]

\* StatsParser.load_and_save_stats(new_df, parquet_path, append).
\* Both exits of the try around to_parquet return combined_df.
load_and_save_stats(file, new_df, append, wr) ==
    LET existing_df == StatsExisting(file)
    IN  IF append /\ Len(new_df) > 0 /\ ~IsEmpty(new_df[1]) THEN
            LET combined_df == StatsCombined(existing_df, new_df[1])
                w == to_parquet(file, combined_df, wr)
            IN  [file |-> w.file, wrote |-> TRUE, result |-> Ok(combined_df)]
        ELSE
            [file |-> file, wrote |-> FALSE, result |-> Ok(existing_df)]

----------------------------------------------------------------------------
(* Python dicts built by the parsers, and DataFrames made from them        *)

\* d.get(k) on a dict of the payload: <<>> is None, <<v>> the value.
Get(d, k) == IF k \in DOMAIN d THEN <<d[k]>> ELSE <<>>

\* A dict under construction: keys in insertion order, and map holding the
\* values that are not None.
NewDict == [keys |-> <<>>, map |-> EmptyDict]

\* d[k] = v, where v is <<>> (None) or <<value>>.
SetItem(d, k, v) ==
    [keys |-> IF k \in Range(d.keys) THEN d.keys ELSE Append(d.keys, k),
     map  |-> IF Len(v) = 0 THEN [x \in DOMAIN d.map \ {k} |-> d.map[x]]
              ELSE (k :> v[1]) @@ d.map]

\* The assignments items = << <<k1, v1>>, <<k2, v2>>, ... >> made in order.
RECURSIVE SetItems(_, _)
SetItems(d, items) ==
    IF Len(items) = 0 THEN d
    ELSE SetItems(SetItem(d, items[1][1], items[1][2]), Tail(items))

\* The columns of pd.DataFrame(records): the keys in order of first appearance.
RECURSIVE ColumnsOf(_)
ColumnsOf(records) ==
    IF Len(records) = 0 THEN <<>>
    ELSE AppendNew(ColumnsOf(SubSeq(records, 1, Len(records) - 1)),
                   records[Len(records)].keys)

\* pd.DataFrame(records) for a list of dicts.
DataFrame(records) ==
    [cols |-> ColumnsOf(records),
     rows |-> [i \in DOMAIN records |-> records[i].map]]

\* The timestamps pandas parses under format="ISO8601", with the instant each
\* denotes in pandas' own rendering; every other string is rejected.
ISO8601 ==
       ("2024-05-01T15:00:00Z"      :> "2024-05-01 15:00:00+00:00")
    @@ ("2024-05-01T15:00:00.000Z"  :> "2024-05-01 15:00:00+00:00")
    @@ ("2024-05-01T15:47:10Z"      :> "2024-05-01 15:47:10+00:00")

\* The conversion under errors="coerce": a cell that does not parse becomes
\* null instead of raising.
to_datetime_Coerce(df, col) ==
    IF col \notin Range(df.cols) THEN Raise("KeyError")
    ELSE Ok([cols |-> df.cols,
             rows |-> [i \in DOMAIN df.rows |->
                         IF col \in DOMAIN df.rows[i]
                            /\ df.rows[i][col] \in DOMAIN ISO8601
                         THEN [df.rows[i] EXCEPT ![col] = ISO8601[@]]
                         ELSE [c \in DOMAIN df.rows[i] \ {col} |->
                                 df.rows[i][c]]]])

\* pd.to_datetime(df[col], format="ISO8601") assigned back to df[col]:
\* KeyError when df has no such column, ValueError when a cell does not
\* parse; a null cell stays null (NaT).
to_datetime(df, col) ==
    IF col \notin Range(df.cols) THEN Raise("KeyError")
    ELSE IF \E i \in DOMAIN df.rows :
                col \in DOMAIN df.rows[i] /\ df.rows[i][col] \notin DOMAIN ISO8601
         THEN Raise("ValueError")
         ELSE Ok([cols |-> df.cols,
                  rows |-> [i \in DOMAIN df.rows |->
                              IF col \in DOMAIN df.rows[i]
                              THEN [df.rows[i] EXCEPT ![col] = ISO8601[@]]
                              ELSE df.rows[i]]])

----------------------------------------------------------------------------
(* EventsDataParser: src/parser/parse_events.py                            *)

\* A contestant loop that takes every entry not tagged home for the away
\* side.
ContestantItems_Else(contestant) ==
    IF "position" \in DOMAIN contestant /\ contestant.position = "home" THEN
        << <<"home_team_id", <<DictGet(contestant, "id", "")>> >>,
           <<"home_team_name", <<DictGet(contestant, "name", "")>> >> >>
    ELSE
        << <<"away_team_name", <<DictGet(contestant, "name", "")>> >>,
           <<"away_team_id", <<DictGet(contestant, "id", "")>> >> >>

\* The metadata assignments one contestant entry causes.
ContestantItems(contestant) ==
    IF "position" \in DOMAIN contestant THEN
        IF contestant.position = "home" THEN
            << <<"home_team_id", <<DictGet(contestant, "id", "")>> >>,
               <<"home_team_name", <<DictGet(contestant, "name", "")>> >> >>
        ELSE IF contestant.position = "away" THEN
            << <<"away_team_name", <<DictGet(contestant, "name", "")>> >>,
               <<"away_team_id", <<DictGet(contestant, "id", "")>> >> >>
        ELSE <<>>
    ELSE <<>>

\* The metadata assignments of the loop over match_info["contestant"].
RECURSIVE ContestantsItems(_)
ContestantsItems(contestants) ==
    IF Len(contestants) = 0 THEN <<>>
    ELSE ContestantItems(contestants[1]) \o ContestantsItems(Tail(contestants))

\* The assignments made from the matchInfo block.
MatchInfoItems(match_info) ==
    << <<"match_id", <<DictGet(match_info, "id", "")>> >>,
       <<"local_date", <<DictGet(match_info, "localDate", "")>> >>,
       <<"local_time", <<DictGet(match_info, "localTime", "")>> >>,
       <<"match_week", <<DictGet(match_info, "week", "")>> >> >>
    \o (IF "competition" \in DOMAIN match_info THEN
            << <<"competition_id", <<DictGet(match_info.competition, "id", "")>> >>,
               <<"competition_name", <<DictGet(match_info.competition, "name", "")>> >>,
               <<"competition_code",
                 <<DictGet(match_info.competition, "competitionCode", "")>> >> >>
        ELSE <<>>)
    \o (IF "tournamentCalendar" \in DOMAIN match_info
           /\ "name" \in DOMAIN match_info.tournamentCalendar
        THEN << <<"season", <<match_info.tournamentCalendar.name>> >> >>
        ELSE <<>>)
    \o (IF "contestant" \in DOMAIN match_info
        THEN ContestantsItems(match_info.contestant)
        ELSE <<>>)
    \o (IF "venue" \in DOMAIN match_info
        THEN << <<"venue", <<DictGet(match_info.venue, "shortName", "")>> >> >>
        ELSE <<>>)

\* The assignments made from the liveData.matchDetails block.
MatchDetailsItems(match_details) ==
    << <<"winner", <<DictGet(match_details, "winner", "")>> >>,
       <<"match_status", <<DictGet(match_details, "matchStatus", "")>> >> >>
    \o (IF "scores" \in DOMAIN match_details
           /\ "total" \in DOMAIN match_details.scores
        THEN << <<"goals_home", <<DictGet(match_details.scores.total, "home", "")>> >>,
                <<"goals_away", <<DictGet(match_details.scores.total, "away", "")>> >> >>
        ELSE <<>>)

\* An extraction that returns what it collected from matchInfo when
\* liveData.matchDetails is missing.
extract_match_metadata_Partial(raw_data) ==
    IF Len(raw_data) = 0 THEN Raise("Exception")
    ELSE IF "matchInfo" \notin DOMAIN raw_data[1] THEN Raise("KeyError")
    ELSE Ok(SetItems(NewDict,
                     MatchInfoItems(raw_data[1].matchInfo)
                     \o (IF "liveData" \in DOMAIN raw_data[1]
                            /\ "matchDetails" \in DOMAIN raw_data[1].liveData
                         THEN MatchDetailsItems(raw_data[1].liveData.matchDetails)
                         ELSE <<>>)))

\* EventsDataParser.extract_match_metadata, as a function of self.raw_data
\* (<<>> is None): the metadata dict it stores in self.match_metadata and
\* returns, or the exception it raises (self.match_metadata is then left
\* as it was).
extract_match_metadata(raw_data) ==
    IF Len(raw_data) = 0 THEN Raise("Exception")
    ELSE IF "matchInfo" \notin DOMAIN raw_data[1] THEN Raise("KeyError")
    ELSE IF ~("liveData" \in DOMAIN raw_data[1]
              /\ "matchDetails" \in DOMAIN raw_data[1].liveData)
    THEN Raise("KeyError")
    ELSE Ok(SetItems(NewDict,
                     MatchInfoItems(raw_data[1].matchInfo)
                     \o MatchDetailsItems(raw_data[1].liveData.matchDetails)))

\* The attributes of an EventsDataParser after the assignments that open
\* __init__ (raw_data, events_raw and the three tables may be None: <<>>).
NewParser ==
    [alive |-> TRUE, raw_data |-> <<>>, events_raw |-> <<>>,
     match_metadata |-> NewDict,
     df_metadata |-> <<>>, df_events |-> <<>>, df_qualifiers |-> <<>>]

\* No EventsDataParser: none was constructed, or the constructor raised.
NoParser == [alive |-> FALSE]

\* EventsDataParser.__init__(event_data_object, file_path).  data is the
\* payload: the event_data_object, or what load_json reads when via = "file".
\* With a file_path the constructor only loads the JSON; otherwise it also
\* extracts the metadata, and an exception there leaves no object.
EventsDataParser(data, via) ==
    IF via = "file" THEN
        [self |-> [NewParser EXCEPT !.raw_data = data], result |-> Ok(<<>>)]
    ELSE
        LET md == extract_match_metadata(data)
        IN  IF md.exc # "None" THEN [self |-> NoParser, result |-> md]
            ELSE [self |-> [NewParser EXCEPT !.raw_data = data,
                                             !.match_metadata = md.value],
                  result |-> Ok(<<>>)]

\* EventsDataParser.create_metadata_dataframe.
create_metadata_dataframe(self) ==
    IF Len(self.match_metadata.keys) = 0 THEN
        [self |-> self, result |-> Raise("ValueError")]
    ELSE
        LET df_metadata == DataFrame(<<self.match_metadata>>)
        IN  [self |-> [self EXCEPT !.df_metadata = <<df_metadata>>],
             result |-> Ok(df_metadata)]

\* The type_name of an event record: get_type_name(raw_event.get("typeId")).
TypeName(raw_event) ==
    IF "typeId" \in DOMAIN raw_event THEN get_type_name(raw_event.typeId).value
    ELSE "Unknown (ID: None)"

\* An event record that takes its match_id from the raw event.
EventRecord_OwnMatch(raw_event, match_id) ==
    SetItems(NewDict,
        << <<"id", Get(raw_event, "id")>>,
           <<"match_id", Get(raw_event, "matchId")>>,
           <<"type_id", Get(raw_event, "typeId")>>,
           <<"type_name", <<TypeName(raw_event)>> >>,
           <<"period_id", Get(raw_event, "periodId")>>,
           <<"minute", Get(raw_event, "timeMin")>>,
           <<"second", Get(raw_event, "timeSec")>>,
           <<"team_id", Get(raw_event, "contestantId")>>,
           <<"player_id", Get(raw_event, "playerId")>>,
           <<"player_name", Get(raw_event, "playerName")>>,
           <<"outcome", Get(raw_event, "outcome")>>,
           <<"x", Get(raw_event, "x")>>,
           <<"y", Get(raw_event, "y")>>,
           <<"timestamp", Get(raw_event, "timeStamp")>> >>)

\* The event_record dict of one raw event.
EventRecord(raw_event, match_id) ==
    SetItems(NewDict,
        << <<"id", Get(raw_event, "id")>>,
           <<"match_id", match_id>>,
           <<"type_id", Get(raw_event, "typeId")>>,
           <<"type_name", <<TypeName(raw_event)>> >>,
           <<"period_id", Get(raw_event, "periodId")>>,
           <<"minute", Get(raw_event, "timeMin")>>,
           <<"second", Get(raw_event, "timeSec")>>,
           <<"team_id", Get(raw_event, "contestantId")>>,
           <<"player_id", Get(raw_event, "playerId")>>,
           <<"player_name", Get(raw_event, "playerName")>>,
           <<"outcome", Get(raw_event, "outcome")>>,
           <<"x", Get(raw_event, "x")>>,
           <<"y", Get(raw_event, "y")>>,
           <<"timestamp", Get(raw_event, "timeStamp")>> >>)

\* A qualifier record with the catalog's name and description exchanged.
QualifierRecord_Swapped(_id, qualifier) ==
    SetItems(NewDict,
        << <<"event_id", _id>>,
           <<"qualifier_id", Get(qualifier, "qualifierId")>>,
           <<"qualifier_name",
             <<IF "qualifierId" \in DOMAIN qualifier
               THEN get_qualifier_description(qualifier.qualifierId).value
               ELSE "No description">> >>,
           <<"qualifier_desc",
             <<IF "qualifierId" \in DOMAIN qualifier
               THEN get_qualifier_name(qualifier.qualifierId).value
               ELSE "Unknown (ID: None)">> >>,
           <<"value", Get(qualifier, "value")>> >>)

\* The qualifier_record dict of one qualifier entry of the event _id.
QualifierRecord(_id, qualifier) ==
    SetItems(NewDict,
        << <<"event_id", _id>>,
           <<"qualifier_id", Get(qualifier, "qualifierId")>>,
           <<"qualifier_name",
             <<IF "qualifierId" \in DOMAIN qualifier
               THEN get_qualifier_name(qualifier.qualifierId).value
               ELSE "Unknown (ID: None)">> >>,
           <<"qualifier_desc",
             <<IF "qualifierId" \in DOMAIN qualifier
               THEN get_qualifier_description(qualifier.qualifierId).value
               ELSE "No description">> >>,
           <<"value", Get(qualifier, "value")>> >>)

\* Qualifier records of which only the first of each event is tagged with
\* the event's id.
EventQualifiers_Untagged(raw_event) ==
    LET qs == DictGet(raw_event, "qualifier", <<>>)
    IN  [j \in DOMAIN qs |->
            QualifierRecord(IF j = 1 THEN Get(raw_event, "id") ELSE <<>>, qs[j])]

\* The qualifier records of one raw event: raw_event.get("qualifier", []).
EventQualifiers(raw_event) ==
    LET qs == DictGet(raw_event, "qualifier", <<>>)
    IN  [j \in DOMAIN qs |-> QualifierRecord(Get(raw_event, "id"), qs[j])]

\* A qualifiers_list with the qualifiers of later events first.
RECURSIVE QualifiersList_LaterFirst(_)
QualifiersList_LaterFirst(events_raw) ==
    IF Len(events_raw) = 0 THEN <<>>
    ELSE QualifiersList_LaterFirst(Tail(events_raw))
         \o EventQualifiers(events_raw[1])

\* qualifiers_list after the loop over the raw events.
RECURSIVE QualifiersList(_)
QualifiersList(events_raw) ==
    IF Len(events_raw) = 0 THEN <<>>
    ELSE EventQualifiers(events_raw[1]) \o QualifiersList(Tail(events_raw))

\* An events_list in reverse feed order.
EventsList_Reversed(events_raw, match_id) ==
    [i \in DOMAIN events_raw |->
        EventRecord(events_raw[Len(events_raw) + 1 - i], match_id)]

\* events_list after the loop over the raw events.
EventsList(events_raw, match_id) ==
    [i \in DOMAIN events_raw |-> EventRecord(events_raw[i], match_id)]

\* A normaliser that takes a missing event list for an empty one.
parse_events_and_qualifiers_Default(self) ==
    LET raw == self.raw_data[1]
        events_raw == IF "liveData" \in DOMAIN raw
                      THEN DictGet(raw.liveData, "event", <<>>) ELSE <<>>
        self1 == [self EXCEPT !.events_raw = <<events_raw>>]
    IN  IF Len(events_raw) > 0
           /\ "match_id" \notin Range(self.match_metadata.keys)
        THEN [self |-> self1, result |-> Raise("KeyError")]
        ELSE
            LET match_id == Get(self.match_metadata.map, "match_id")
                df_events == DataFrame(EventsList(events_raw, match_id))
                self2 == [self1 EXCEPT !.df_events = <<df_events>>]
                conv == to_datetime(df_events, "timestamp")
            IN  IF conv.exc # "None" THEN
                    [self |-> self2, result |-> conv]
                ELSE
                    LET df_qualifiers == DataFrame(QualifiersList(events_raw))
                    IN  [self |-> [self2 EXCEPT
                                      !.df_events = <<conv.value>>,
                                      !.df_qualifiers = <<df_qualifiers>>],
                         result |-> Ok(<<conv.value, df_qualifiers>>)]

\* EventsDataParser.parse_events_and_qualifiers on a parser holding a payload.
parse_events_and_qualifiers(self) ==
    LET raw == self.raw_data[1]
    IN  IF ~("liveData" \in DOMAIN raw /\ "event" \in DOMAIN raw.liveData) THEN
            [self |-> self, result |-> Raise("ValueError")]
        ELSE
            LET events_raw == raw.liveData.event
                self1 == [self EXCEPT !.events_raw = <<events_raw>>]
            IN  IF Len(events_raw) > 0
                   /\ "match_id" \notin Range(self.match_metadata.keys)
                THEN \* self.match_metadata["match_id"] in the first iteration
                    [self |-> self1, result |-> Raise("KeyError")]
                ELSE
                    LET match_id == Get(self.match_metadata.map, "match_id")
                        df_events == DataFrame(EventsList(events_raw, match_id))
                        \* self.df_events is assigned before the conversion
                        self2 == [self1 EXCEPT !.df_events = <<df_events>>]
                        conv == to_datetime(df_events, "timestamp")
                    IN  IF conv.exc # "None" THEN
                            [self |-> self2, result |-> conv]
                        ELSE
                            LET df_qualifiers ==
                                    DataFrame(QualifiersList(events_raw))
                            IN  [self |-> [self2 EXCEPT
                                              !.df_events = <<conv.value>>,
                                              !.df_qualifiers = <<df_qualifiers>>],
                                 result |-> Ok(<<conv.value, df_qualifiers>>)]

----------------------------------------------------------------------------
(* StatsParser: src/parser/parse_stats.py                                  *)

\* The statistic names of the feed, in the order Python's sorted() gives
\* strings (by code point).
StatNameOrder == <<"accuratePass", "goals", "minsPlayed", "saves", "totalPass">>

\* The statistic names in descending order.
Sorted_Descending(names) ==
    SelectSeq([i \in DOMAIN StatNameOrder |->
                  StatNameOrder[Len(StatNameOrder) + 1 - i]],
              LAMBDA n : n \in names)

\* sorted(list(names)) for a set of statistic names.
Sorted(names) == SelectSeq(StatNameOrder, LAMBDA n : n \in names)

\* The statistic values pd.to_numeric parses, with their numbers; under
\* errors="coerce" every other value becomes NaN.
NUMERIC == ("0" :> 0) @@ ("1" :> 1) @@ ("2" :> 2) @@ ("90" :> 90)

\* The attributes of a StatsParser after __init__(match_data).
StatsParser(match_data) ==
    [match_data |-> match_data, match_id |-> <<>>, teams |-> EmptyDict,
     all_stats_columns |-> {}]

\* StatsParser.extract_match_id: match_data["matchInfo"]["id"], or None
\* (<<>>) when a key is missing; self.match_id is assigned only on success.
extract_match_id(self) ==
    IF "matchInfo" \in DOMAIN self.match_data
       /\ "id" \in DOMAIN self.match_data.matchInfo
    THEN [self |-> [self EXCEPT !.match_id = <<self.match_data.matchInfo.id>>],
          result |-> <<self.match_data.matchInfo.id>>]
    ELSE [self |-> self, result |-> <<>>]

\* The assignments player_info[stat_type] = stat_value of one player.
StatItems(stats_list) ==
    [k \in DOMAIN stats_list |->
        <<stats_list[k].type, Get(stats_list[k], "value")>>]

\* The player_info dict of one player of the team team_id.
PlayerInfo(match_id, team_id, player) ==
    SetItems(NewDict,
        << <<"matchId", match_id>>,
           <<"team_id", team_id>>,
           <<"playerId", Get(player, "playerId")>>,
           <<"matchName", Get(player, "matchName")>>,
           <<"shirtNumber", Get(player, "shirtNumber")>>,
           <<"position", Get(player, "position")>> >>
        \o StatItems(DictGet(player, "stat", <<>>)))

\* The player_info dicts of one team block, in feed order.
TeamPlayers(match_id, team_data) ==
    LET players_list == DictGet(team_data, "player", <<>>)
    IN  [j \in DOMAIN players_list |->
            PlayerInfo(match_id, Get(team_data, "contestantId"), players_list[j])]

\* all_players after the loop over the lineup.
RECURSIVE AllPlayers(_, _)
AllPlayers(match_id, lineup_array) ==
    IF Len(lineup_array) = 0 THEN <<>>
    ELSE TeamPlayers(match_id, lineup_array[1])
         \o AllPlayers(match_id, Tail(lineup_array))

\* The statistic names seen on the players of the first team block only.
StatTypes_FirstTeam(lineup_array) ==
    IF Len(lineup_array) = 0 THEN {}
    ELSE UNION {{s.type : s \in Range(DictGet(p, "stat", <<>>))}
                : p \in Range(DictGet(lineup_array[1], "player", <<>>))}

\* The statistic names seen on the players of the lineup.
StatTypes(lineup_array) ==
    UNION {UNION {{s.type : s \in Range(DictGet(p, "stat", <<>>))}
                  : p \in Range(DictGet(t, "player", <<>>))}
           : t \in Range(lineup_array)}

\* self.teams after the loop: contestantId -> team block.
Teams(lineup_array) ==
    [id \in {t.contestantId : t \in Range(lineup_array)} |->
        LET last == CHOOSE i \in DOMAIN lineup_array :
                       /\ lineup_array[i].contestantId = id
                       /\ \A j \in DOMAIN lineup_array :
                             lineup_array[j].contestantId = id => j <= i
        IN  lineup_array[last]]

\* df[column_order] after the missing columns were added as None, with the
\* statistic columns passed through pd.to_numeric(errors="coerce").
Reordered(df, basic_columns, stat_columns) ==
    [cols |-> basic_columns \o stat_columns,
     rows |-> [i \in DOMAIN df.rows |->
                 [c \in {c \in DOMAIN df.rows[i] :
                            \/ c \in Range(basic_columns)
                            \/ /\ c \in Range(stat_columns)
                               /\ df.rows[i][c] \in DOMAIN NUMERIC} |->
                     IF c \in Range(stat_columns) THEN NUMERIC[df.rows[i][c]]
                     ELSE df.rows[i][c]]]]

\* An extraction that lets the KeyError of a missing liveData.lineUp out.
extract_lineup_data_Strict(self) ==
    LET self1 == extract_match_id(self).self
    IN  IF ~("liveData" \in DOMAIN self1.match_data
             /\ "lineUp" \in DOMAIN self1.match_data.liveData)
        THEN [self |-> self1, result |-> Raise("KeyError")]
        ELSE
            LET lineup_array == self1.match_data.liveData.lineUp
                all_stats_columns ==
                    self1.all_stats_columns \cup StatTypes(lineup_array)
                df == DataFrame(AllPlayers(self1.match_id, lineup_array))
                basic_columns == <<"matchId", "team_id", "playerId",
                                   "matchName", "shirtNumber", "position">>
                stat_columns == Sorted(all_stats_columns)
            IN  [self |-> [self1 EXCEPT
                              !.teams = Teams(lineup_array) @@ self1.teams,
                              !.all_stats_columns = all_stats_columns],
                 result |-> Reordered(df, basic_columns, stat_columns)]

\* StatsParser.extract_lineup_data: the parser afterwards and the table.
\* A payload without liveData.lineUp raises KeyError inside the try: the
\* except clause returns an empty DataFrame.
extract_lineup_data(self) ==
    LET self1 == extract_match_id(self).self
    IN  IF ~("liveData" \in DOMAIN self1.match_data
             /\ "lineUp" \in DOMAIN self1.match_data.liveData)
        THEN [self |-> self1, result |-> EmptyDataFrame]
        ELSE
            LET lineup_array == self1.match_data.liveData.lineUp
                all_stats_columns ==
                    self1.all_stats_columns \cup StatTypes(lineup_array)
                df == DataFrame(AllPlayers(self1.match_id, lineup_array))
                basic_columns == <<"matchId", "team_id", "playerId",
                                   "matchName", "shirtNumber", "position">>
                stat_columns == Sorted(all_stats_columns)
            IN  [self |-> [self1 EXCEPT
                              !.teams = Teams(lineup_array) @@ self1.teams,
                              !.all_stats_columns = all_stats_columns],
                 result |-> Reordered(df, basic_columns, stat_columns)]

\* StatsParser.parse: the extraction under another name.
parse(self) == extract_lineup_data(self)

----------------------------------------------------------------------------
(* The feeds the model is run on                                           *)

\* The matches of the feeds.
MatchIds == {"M1", "M2"}

\* The feeds of the model: a match and a version of its contents (a match
\* scraped again later has more events and other statistics).
Feeds == {<<"M1", 1>>, <<"M1", 2>>, <<"M2", 1>>}

\* The feed-assigned id of the k-th event of match m.
EventId(m, k) == (IF m = "M1" THEN 100 ELSE 200) + k

\* A pass with one qualifier (Long ball).
PassEvent(m, v) ==
    [id |-> EventId(m, 1), typeId |-> 1, periodId |-> 1,
     timeStamp |-> "2024-05-01T15:00:00Z",
     qualifier |-> << [qualifierId |-> 1, value |-> IF v = 1 THEN "1" ELSE "0"] >>]

\* A goal without a qualifier list.
GoalEvent(m) ==
    [id |-> EventId(m, 2), typeId |-> 16, periodId |-> 2,
     timeStamp |-> "2024-05-01T15:47:10Z"]

\* The matchevent payload of a feed.
MatchEvent(m, v) ==
    [matchInfo |->
        [id |-> m, week |-> "34",
         contestant |-> << [id |-> "T1", name |-> "Home FC", position |-> "home"],
                           [id |-> "T2", name |-> "Away FC", position |-> "away"] >>],
     liveData |->
        [matchDetails |->
            [matchStatus |-> IF v = 1 THEN "Playing" ELSE "Played",
             scores |-> [total |-> [home |-> IF v = 1 THEN "0" ELSE "1",
                                    away |-> "0"]]],
         event |-> IF v = 1 THEN <<PassEvent(m, v)>>
                   ELSE <<PassEvent(m, v), GoalEvent(m)>>]]

\* The structural defects of a payload.
Defects == {"no matchInfo", "no liveData", "no matchDetails", "no event",
            "bad timeStamp"}

\* d without the key k.
Without(d, k) == [x \in DOMAIN d \ {k} |-> d[x]]

\* The payload p with a structural defect.
Defective(p, defect) ==
    CASE defect = "no matchInfo"    -> Without(p, "matchInfo")
      [] defect = "no liveData"     -> Without(p, "liveData")
      [] defect = "no matchDetails" ->
            [p EXCEPT !.liveData = Without(@, "matchDetails")]
      [] defect = "no event"        -> [p EXCEPT !.liveData = Without(@, "event")]
      [] defect = "bad timeStamp"   ->
            [p EXCEPT !.liveData.event =
                Append(@, [id |-> 999, typeId |-> 2, timeStamp |-> "15:47"])]

\* The matchstats payload of a feed: one team.  The first version of M1 has
\* three statistics and M2 two others; the later version of M1 has a second
\* player and other statistics.
MatchStats(m, v) ==
    [matchInfo |-> [id |-> m],
     liveData |->
        [lineUp |-> <<
            [contestantId |-> "T1",
             player |->
                IF m = "M2" THEN
                    << [playerId |-> "p3", matchName |-> "C. Three",
                        stat |-> << [type |-> "totalPass", value |-> "90"],
                                    [type |-> "accuratePass", value |-> "2"] >>] >>
                ELSE IF v = 1 THEN
                    << [playerId |-> "p1", matchName |-> "A. One",
                        stat |-> << [type |-> "goals", value |-> "1"],
                                    [type |-> "minsPlayed", value |-> "90"],
                                    [type |-> "saves", value |-> "0"] >>] >>
                ELSE
                    << [playerId |-> "p1", matchName |-> "A. One",
                        stat |-> << [type |-> "goals", value |-> "2"] >>],
                       [playerId |-> "p2", matchName |-> "B. Two",
                        stat |-> << [type |-> "saves", value |-> "1"] >>] >>] >>]]

\* The parser of a well-formed feed after construction from memory,
\* create_metadata_dataframe and parse_events_and_qualifiers.
Parsed(m, v) ==
    LET p0 == EventsDataParser(<<MatchEvent(m, v)>>, "object").self
        p1 == create_metadata_dataframe(p0).self
    IN  parse_events_and_qualifiers(p1).self

\* The arguments the store functions are called with: None, or a table a
\* parser produced from a feed.
MetadataInputs == {<<>>} \cup {Parsed(f[1], f[2]).df_metadata : f \in Feeds}

EventsInputs == {<<>>} \cup {Parsed(f[1], f[2]).df_events : f \in Feeds}

QualifiersInputs == {<<>>} \cup {Parsed(f[1], f[2]).df_qualifiers : f \in Feeds}

StatsInputs ==
    {<<>>, <<extract_lineup_data(StatsParser([matchInfo |-> [id |-> "M1"]])).result>>}
    \cup {<<extract_lineup_data(StatsParser(MatchStats(f[1], f[2]))).result>>
          : f \in Feeds}

\* The payloads handed to EventsDataParser: well-formed feeds, and a feed
\* with each structural defect.
IngestData ==
    {<<MatchEvent(f[1], f[2])>> : f \in Feeds}
    \cup {<<Defective(MatchEvent("M1", 2), d)>> : d \in Defects}

----------------------------------------------------------------------------
(* Bounds                                                                  *)

\* The codes looked up in the catalog are -1 .. MaxCode.
MaxCode == 300

\* The rows the four stored tables hold together.
MaxStoredRows == 2

\* The matches one run of the ingestion begins.
MaxIngestions == 2

\* The writes the environment makes fail in one run.
MaxFaults == 1

----------------------------------------------------------------------------
(* State machine                                                           *)

\* The ingestion processes that may run against one output directory.
Procs == {"A", "B"}

\* The tables the processes merge into.
SharedTables == {"events", "stats"}

\* No process is in a merge, none has merged anything:
\*   at[p]       where process p is: idle, or between the read and the write
\*               of a merge into a table, holding what it read;
\*   last[t][m]  the rows of match m in the latest table merged into t
\*               (<<>> when none was, else <<rows>>);
\*   raced       some process read a table while another was between its
\*               read and its write of the same table.
NoMerges ==
    [at    |-> [p \in Procs |-> [pc |-> "idle"]],
     last  |-> [t \in SharedTables |-> [m \in MatchIds |-> <<>>]],
     raced |-> FALSE]

Init ==
    /\ lookup = [op |-> "none"]
    /\ fs = [t \in Tables |-> AbsentFile]
    /\ call = [fn |-> "none"]
    /\ parser = NoParser
    /\ ingest = [n |-> 0, failed |-> FALSE, merged |-> {}]
    /\ faults = 0
    /\ procs = NoMerges

\* The rows stored in all tables, with table t's file replaced by file.
StoredRows(t, file) ==
    LET f == [fs EXCEPT ![t] = file]
    IN  Len(f["metadata"].df.rows) + Len(f["events"].df.rows)
        + Len(f["qualifiers"].df.rows) + Len(f["stats"].df.rows)

\* A call of the store function fn on table t returned r.
StoreCall(fn, t, new_df, append, wr, r) ==
    /\ r.wrote \/ wr = "ok"
    /\ wr = "ok" \/ faults < MaxFaults
    /\ StoredRows(t, r.file) <= MaxStoredRows
    /\ faults' = IF wr = "ok" THEN faults ELSE faults + 1
    /\ fs' = [fs EXCEPT ![t] = r.file]
    /\ call' = [fn |-> fn, table |-> t, new_df |-> new_df, append |-> append,
                wr |-> wr, before |-> fs[t], result |-> r.result]

\* EventsDataParser.load_or_append_metadata(df_metadata).
LoadOrAppendMetadata(df_metadata) ==
    \E wr \in WriteOutcomes :
        StoreCall("load_or_append_metadata", "metadata", df_metadata,
                  Len(df_metadata) > 0, wr,
                  load_or_append_metadata(fs["metadata"], df_metadata, wr))

\* EventsDataParser.load_or_append_events(df_events).
LoadOrAppendEvents(df_events) ==
    \E wr \in WriteOutcomes :
        StoreCall("load_or_append_events", "events", df_events,
                  Len(df_events) > 0, wr,
                  load_or_append_events(fs["events"], df_events, wr))

\* EventsDataParser.load_or_append_qualifiers(df_qualifiers).
LoadOrAppendQualifiers(df_qualifiers) ==
    \E wr \in WriteOutcomes :
        StoreCall("load_or_append_qualifiers", "qualifiers", df_qualifiers,
                  Len(df_qualifiers) > 0, wr,
                  load_or_append_qualifiers(fs["qualifiers"], df_qualifiers, wr))

\* StatsParser.load_and_save_stats(new_df, parquet_path, append).
LoadAndSaveStats(new_df, append) ==
    \E wr \in WriteOutcomes :
        StoreCall("load_and_save_stats", "stats", new_df, append, wr,
                  load_and_save_stats(fs["stats"], new_df, append, wr))

\* The store functions called on their own, with any argument.
StoreMetadata ==
    /\ \E df \in MetadataInputs : LoadOrAppendMetadata(df)
    /\ UNCHANGED <<lookup, parser, ingest, procs>>

StoreEvents ==
    /\ \E df \in EventsInputs : LoadOrAppendEvents(df)
    /\ UNCHANGED <<lookup, parser, ingest, procs>>

StoreQualifiers ==
    /\ \E df \in QualifiersInputs : LoadOrAppendQualifiers(df)
    /\ UNCHANGED <<lookup, parser, ingest, procs>>

StoreStats ==
    /\ \E df \in StatsInputs, append \in BOOLEAN : LoadAndSaveStats(df, append)
    /\ UNCHANGED <<lookup, parser, ingest, procs>>

NextStore == StoreMetadata \/ StoreEvents \/ StoreQualifiers \/ StoreStats

SpecStore == Init /\ [][NextStore]_vars

\* OptaEventTypeReference.get_type_name(code).
GetTypeName ==
    /\ \E code \in -1 .. MaxCode :
          lookup' = [op |-> "get_type_name", code |-> code,
                     result |-> get_type_name(code)]
    /\ UNCHANGED <<fs, call, parser, ingest, faults, procs>>

\* OptaQualifierReference.get_qualifier_name(code).
GetQualifierName ==
    /\ \E code \in -1 .. MaxCode :
          lookup' = [op |-> "get_qualifier_name", code |-> code,
                     result |-> get_qualifier_name(code)]
    /\ UNCHANGED <<fs, call, parser, ingest, faults, procs>>

NextCatalog == GetTypeName \/ GetQualifierName

SpecCatalog == Init /\ [][NextCatalog]_vars

\* The caller constructs the parser of the next match.
Construct ==
    /\ ingest.n < MaxIngestions
    /\ \E data \in IngestData, via \in {"object", "file"} :
          LET r == EventsDataParser(data, via)
          IN  /\ parser' = r.self
              /\ ingest' = [n |-> ingest.n + 1,
                            failed |-> r.result.exc # "None", merged |-> {}]
    /\ UNCHANGED <<lookup, fs, call, faults, procs>>

\* The caller goes on with a match only while no call on it has raised.
Ingesting == parser.alive /\ ~ingest.failed

\* parser.extract_match_metadata().
ExtractMatchMetadata ==
    /\ Ingesting
    /\ LET r == extract_match_metadata(parser.raw_data)
       IN  /\ parser' = IF r.exc = "None"
                        THEN [parser EXCEPT !.match_metadata = r.value]
                        ELSE parser
           /\ ingest' = [ingest EXCEPT !.failed = r.exc # "None"]
    /\ UNCHANGED <<lookup, fs, call, faults, procs>>

\* parser.create_metadata_dataframe().
CreateMetadataDataframe ==
    /\ Ingesting
    /\ LET r == create_metadata_dataframe(parser)
       IN  /\ parser' = r.self
           /\ ingest' = [ingest EXCEPT !.failed = r.result.exc # "None"]
    /\ UNCHANGED <<lookup, fs, call, faults, procs>>

\* parser.parse_events_and_qualifiers().
ParseEventsAndQualifiers ==
    /\ Ingesting
    /\ LET r == parse_events_and_qualifiers(parser)
       IN  /\ parser' = r.self
           /\ ingest' = [ingest EXCEPT !.failed = r.result.exc # "None"]
    /\ UNCHANGED <<lookup, fs, call, faults, procs>>

\* The tables of this match merged so far, after a merge into table t.
Merged(t) ==
    [ingest EXCEPT !.merged = IF call'.result.exc = "None" THEN @ \cup {t} ELSE @]

\* EventsDataParser.load_or_append_metadata(parser.df_metadata).
MergeMetadata ==
    /\ Ingesting
    /\ Len(parser.df_metadata) > 0
    /\ LoadOrAppendMetadata(parser.df_metadata)
    /\ ingest' = Merged("metadata")
    /\ UNCHANGED <<lookup, parser, procs>>

\* EventsDataParser.load_or_append_events(parser.df_events).
MergeEvents ==
    /\ Ingesting
    /\ Len(parser.df_events) > 0
    /\ LoadOrAppendEvents(parser.df_events)
    /\ ingest' = Merged("events")
    /\ UNCHANGED <<lookup, parser, procs>>

\* EventsDataParser.load_or_append_qualifiers(parser.df_qualifiers).
MergeQualifiers ==
    /\ Ingesting
    /\ Len(parser.df_qualifiers) > 0
    /\ LoadOrAppendQualifiers(parser.df_qualifiers)
    /\ ingest' = Merged("qualifiers")
    /\ UNCHANGED <<lookup, parser, procs>>

NextIngest ==
    \/ Construct
    \/ ExtractMatchMetadata
    \/ CreateMetadataDataframe
    \/ ParseEventsAndQualifiers
    \/ MergeMetadata
    \/ MergeEvents
    \/ MergeQualifiers

SpecIngest == Init /\ [][NextIngest]_vars

----------------------------------------------------------------------------
(* The payloads the parsers are run on                                     *)

\* The events one payload holds at most.
MaxEvents == 2

\* The statistic entries one player holds at most.
MaxStats == 2

\* The lists (JSON arrays) of at most n entries drawn from S; without
\* repetition of an entry when distinct.
RECURSIVE Lists(_, _, _)
Lists(S, n, distinct) ==
    IF n = 0 THEN {<<>>}
    ELSE LET shorter == Lists(S, n - 1, distinct)
             longest == {t \in shorter : Len(t) = n - 1}
         IN  shorter \cup
             {Append(q[1], q[2]) :
                 q \in {q \in longest \X S :
                           ~distinct \/ q[2] \notin Range(q[1])}}

\* The matchInfo blocks: every combination of the optional blocks being
\* present, and of the contestant entries (a list with an official whose
\* position is neither home nor away, an entry without position, the two
\* sides in either order, no list at all).
MatchInfos ==
    { (IF id THEN [id |-> "M1"] ELSE EmptyDict)
      @@ [week |-> "34"]
      @@ (CASE competition = "none" -> EmptyDict
            [] competition = "bare" -> [competition |-> [id |-> "c8"]]
            [] competition = "full" ->
                 [competition |-> [id |-> "c8", name |-> "League",
                                   competitionCode |-> "LG"]])
      @@ (CASE calendar = "none"    -> EmptyDict
            [] calendar = "unnamed" -> [tournamentCalendar |-> [id |-> "tc1"]]
            [] calendar = "named"   ->
                 [tournamentCalendar |-> [id |-> "tc1", name |-> "2023/2024"]])
      @@ (IF venue THEN [venue |-> [shortName |-> "Ground"]] ELSE EmptyDict)
      @@ (IF Len(contestant) = 0 THEN EmptyDict
          ELSE [contestant |-> contestant[1]])
      : id \in BOOLEAN,
        competition \in {"none", "bare", "full"},
        calendar \in {"none", "unnamed", "named"},
        venue \in BOOLEAN,
        contestant \in
          { <<>>,
            << << [id |-> "T1", name |-> "Home FC", position |-> "home"],
                  [id |-> "T2", name |-> "Away FC", position |-> "away"] >> >>,
            << << [id |-> "T2", name |-> "Away FC", position |-> "away"],
                  [id |-> "T1", position |-> "home"] >> >>,
            << << [id |-> "T1", name |-> "Home FC", position |-> "home"],
                  [id |-> "R9", name |-> "Referee", position |-> "official"],
                  [id |-> "T2", name |-> "Away FC", position |-> "away"] >> >>,
            << << [id |-> "X0", name |-> "Untagged"],
                  [id |-> "T2", name |-> "Away FC", position |-> "away"] >> >>,
            << << [id |-> "R9", name |-> "Referee", position |-> "official"] >> >> } }

\* The liveData.matchDetails blocks: with score totals, with scores lacking
\* the total, without scores.
MatchDetails ==
    { [matchStatus |-> "Played", winner |-> "home",
       scores |-> [total |-> [home |-> "1", away |-> "0"]]],
      [matchStatus |-> "Played", scores |-> [ht |-> [home |-> "0", away |-> "0"]]],
      [matchStatus |-> "Fixture"] }

\* The kinds of raw event: a pass with one qualifier, a goal without a
\* qualifier list, an event of a type the catalog lacks with a repeated and
\* an unknown qualifier code and no timeStamp, an event whose qualifier list
\* is empty, an event whose timeStamp does not parse.  All have the same
\* minute and second.
EventKinds ==
    { [typeId |-> 1, timeMin |-> 10, timeSec |-> 5, outcome |-> 1,
       timeStamp |-> "2024-05-01T15:00:00Z",
       qualifier |-> << [qualifierId |-> 1, value |-> "1"] >>],
      [typeId |-> 16, timeMin |-> 10, timeSec |-> 5,
       timeStamp |-> "2024-05-01T15:47:10Z"],
      [typeId |-> 26, timeMin |-> 10, timeSec |-> 5,
       qualifier |-> << [qualifierId |-> 1, value |-> "0"],
                        [qualifierId |-> 1],
                        [qualifierId |-> 999, value |-> "7"] >>],
      [typeId |-> 2, timeMin |-> 10, timeSec |-> 5,
       timeStamp |-> "2024-05-01T15:00:00.000Z", qualifier |-> <<>>],
      [typeId |-> 1, timeMin |-> 10, timeSec |-> 5, timeStamp |-> "15:47",
       qualifier |-> << [qualifierId |-> 2, value |-> "1"] >>] }

\* The event list made of the kinds ks, with the feed's ids: one id per
\* event ("unique"), the same id on every event ("shared"), no id ("none").
EventList(ks, ids) ==
    [i \in DOMAIN ks |->
        CASE ids = "unique" -> [id |-> 100 + i] @@ ks[i]
          [] ids = "shared" -> [id |-> 100] @@ ks[i]
          [] ids = "none"   -> ks[i]]

\* The event lists of the payloads.
EventLists ==
    {EventList(ks, ids) : ks \in Lists(EventKinds, MaxEvents, FALSE),
                          ids \in {"unique", "shared", "none"}}

\* The matchevent payloads handed to EventsDataParser:
\*   every matchInfo block with every matchDetails block and two events;
\*   a plain matchInfo block, with and without id, with every event list;
\*   payloads lacking a required section or the event list.
EventPayloads ==
    LET plain == MatchEvent("M1", 2)
    IN  {[matchInfo |-> mi,
          liveData |-> [matchDetails |-> md, event |-> plain.liveData.event]]
            : mi \in MatchInfos, md \in MatchDetails}
        \cup {[matchInfo |-> mi,
               liveData |-> [matchDetails |-> plain.liveData.matchDetails,
                             event |-> es]]
                : mi \in {plain.matchInfo, Without(plain.matchInfo, "id")},
                  es \in EventLists}
        \cup {Defective(plain, d) : d \in Defects}
        \cup {Without(Defective(plain, "bad timeStamp"), "matchInfo")}

\* The statistic entries of a player, as {type, value} pairs: a parseable
\* value, an unparseable one, no value.
StatEntries ==
    { [type |-> "goals", value |-> "1"],
      [type |-> "accuratePass", value |-> "2"],
      [type |-> "saves", value |-> "x"],
      [type |-> "totalPass"] }

\* The lineUp lists made of two players with the statistic lists sa and sb:
\* in one team in either order, in two teams in either order, and a team
\* block without player list beside them.
LineUps(sa, sb) ==
    LET a == [playerId |-> "p1", matchName |-> "A. One", shirtNumber |-> "9",
              position |-> "Striker", stat |-> sa]
        b == [playerId |-> "p2", matchName |-> "B. Two", stat |-> sb]
    IN  { << [contestantId |-> "T1", player |-> <<a, b>>] >>,
          << [contestantId |-> "T1", player |-> <<b, a>>] >>,
          << [contestantId |-> "T1", player |-> <<a>>],
             [contestantId |-> "T2", player |-> <<b>>] >>,
          << [contestantId |-> "T2", player |-> <<b>>],
             [contestantId |-> "T1", player |-> <<a>>] >>,
          << [contestantId |-> "T3"],
             [contestantId |-> "T1", player |-> <<a, b>>] >> }

\* The matchstats payloads handed to StatsParser: every lineUp, with
\* matchInfo; an empty lineUp; payloads lacking lineUp, liveData, matchInfo.
StatsPayloads ==
    {[matchInfo |-> [id |-> "M1"], liveData |-> [lineUp |-> l]]
        : l \in UNION {LineUps(sa, sb) :
                          sa \in Lists(StatEntries, MaxStats, TRUE),
                          sb \in Lists(StatEntries, MaxStats, TRUE)}}
    \cup { [matchInfo |-> [id |-> "M1"], liveData |-> [lineUp |-> <<>>]],
           [matchInfo |-> [id |-> "M1"], liveData |-> [matchDetails |-> EmptyDict]],
           [matchInfo |-> [id |-> "M1"]],
           [liveData |-> [lineUp |-> CHOOSE l \in LineUps(<<>>, <<>>) : Len(l) = 1]] }

----------------------------------------------------------------------------
(* The parser objects used on their own                                    *)

\* p = EventsDataParser(event_data_object) or EventsDataParser(None, path):
\* the payload is the object, or the JSON document load_json reads.
NewEventsDataParser ==
    /\ parser = NoParser
    /\ \E data \in EventPayloads, via \in {"object", "file"} :
          LET r == EventsDataParser(<<data>>, via)
          IN  /\ parser' = r.self
              /\ call' = [fn |-> "__init__", via |-> via, data |-> data,
                          before |-> parser, result |-> r.result]
    /\ UNCHANGED <<lookup, fs, ingest, faults, procs>>

\* p.extract_match_metadata().
CallExtractMatchMetadata ==
    /\ parser # NoParser
    /\ LET r == extract_match_metadata(parser.raw_data)
       IN  /\ parser' = IF r.exc = "None"
                        THEN [parser EXCEPT !.match_metadata = r.value]
                        ELSE parser
           /\ call' = [fn |-> "extract_match_metadata", before |-> parser,
                       result |-> r]
    /\ UNCHANGED <<lookup, fs, ingest, faults, procs>>

\* p.create_metadata_dataframe().
CallCreateMetadataDataframe ==
    /\ parser # NoParser
    /\ LET r == create_metadata_dataframe(parser)
       IN  /\ parser' = r.self
           /\ call' = [fn |-> "create_metadata_dataframe", before |-> parser,
                       result |-> r.result]
    /\ UNCHANGED <<lookup, fs, ingest, faults, procs>>

\* p.parse_events_and_qualifiers().
CallParseEventsAndQualifiers ==
    /\ parser # NoParser
    /\ LET r == parse_events_and_qualifiers(parser)
       IN  /\ parser' = r.self
           /\ call' = [fn |-> "parse_events_and_qualifiers", before |-> parser,
                       result |-> r.result]
    /\ UNCHANGED <<lookup, fs, ingest, faults, procs>>

NextParse ==
    \/ NewEventsDataParser
    \/ CallExtractMatchMetadata
    \/ CallCreateMetadataDataframe
    \/ CallParseEventsAndQualifiers

SpecParse == Init /\ [][NextParse]_vars

\* p = StatsParser(match_data).
NewStatsParser ==
    /\ parser = NoParser
    /\ \E match_data \in StatsPayloads :
          /\ parser' = StatsParser(match_data)
          /\ call' = [fn |-> "__init__", before |-> parser, result |-> Ok(<<>>)]
    /\ UNCHANGED <<lookup, fs, ingest, faults, procs>>

\* p.extract_match_id().
CallExtractMatchId ==
    /\ parser # NoParser
    /\ LET r == extract_match_id(parser)
       IN  /\ parser' = r.self
           /\ call' = [fn |-> "extract_match_id", before |-> parser,
                       result |-> Ok(r.result)]
    /\ UNCHANGED <<lookup, fs, ingest, faults, procs>>

\* p.extract_lineup_data().
CallExtractLineupData ==
    /\ parser # NoParser
    /\ LET r == extract_lineup_data(parser)
       IN  /\ parser' = r.self
           /\ call' = [fn |-> "extract_lineup_data", before |-> parser,
                       result |-> Ok(r.result)]
    /\ UNCHANGED <<lookup, fs, ingest, faults, procs>>

\* p.parse().
CallParse ==
    /\ parser # NoParser
    /\ LET r == parse(parser)
       IN  /\ parser' = r.self
           /\ call' = [fn |-> "parse", before |-> parser,
                       result |-> Ok(r.result)]
    /\ UNCHANGED <<lookup, fs, ingest, faults, procs>>

NextStats ==
    \/ NewStatsParser
    \/ CallExtractMatchId
    \/ CallExtractLineupData
    \/ CallParse

SpecStats == Init /\ [][NextStats]_vars

----------------------------------------------------------------------------
(* Processes merging into one output directory                             *)

\* The match-id column of a shared table.
MatchColumn(t) == IF t = "events" THEN "match_id" ELSE "matchId"

\* The most rows a shared table holds.
MaxSharedRows == 3

\* The match each process ingests.
MatchOf(p) == IF p = "A" THEN "M1" ELSE "M2"

\* The tables process p may merge into the shared table t: the events table
\* or the stats table of a feed of its match.
MergeInputs(p, t) ==
    LET own == {f \in Feeds : f[1] = MatchOf(p)}
    IN  IF t = "events" THEN {Parsed(f[1], f[2]).df_events[1] : f \in own}
        ELSE {extract_lineup_data(StatsParser(MatchStats(f[1], f[2]))).result
                : f \in own}

\* Process p enters load_or_append_events(new_df) or
\* load_and_save_stats(new_df, append=True) and runs it up to the read of the
\* parquet file; nothing excludes another process from the file.
MergeRead(p, t, new_df) ==
    /\ procs.at[p].pc = "idle"
    /\ procs' = [procs EXCEPT
          !.at[p] = [pc |-> "read", table |-> t, new_df |-> new_df,
                     seen |-> fs[t]],
          !.raced = @ \/ \E q \in Procs \ {p} :
                            procs.at[q].pc = "read" /\ procs.at[q].table = t]
    /\ UNCHANGED <<lookup, fs, call, parser, ingest, faults>>

\* Process p runs the rest of the function: it combines what it read with
\* its new table and writes the whole file.
MergeWrite(p) ==
    /\ procs.at[p].pc = "read"
    /\ LET t == procs.at[p].table
           new_df == procs.at[p].new_df
           seen == procs.at[p].seen
           r == IF t = "events"
                THEN load_or_append_events(seen, <<new_df>>, "ok")
                ELSE load_and_save_stats(seen, <<new_df>>, TRUE, "ok")
       IN  /\ Len(r.file.df.rows) <= MaxSharedRows
           /\ fs' = [fs EXCEPT ![t] = r.file]
           /\ call' = [fn |-> IF t = "events" THEN "load_or_append_events"
                              ELSE "load_and_save_stats",
                       table |-> t, new_df |-> <<new_df>>, append |-> TRUE,
                       wr |-> "ok", proc |-> p, seen |-> seen,
                       before |-> fs[t], result |-> r.result]
           /\ procs' = [procs EXCEPT
                 !.at[p] = [pc |-> "idle"],
                 !.last[t] = [m \in MatchIds |->
                     IF <<m>> \in Unique(new_df, MatchColumn(t))
                     THEN <<KeepIsin(new_df, MatchColumn(t), {<<m>>}).rows>>
                     ELSE @[m]]]
    /\ UNCHANGED <<lookup, parser, ingest, faults>>

Read == \E p \in Procs, t \in SharedTables : \E new_df \in MergeInputs(p, t) :
            MergeRead(p, t, new_df)

Write == \E p \in Procs : MergeWrite(p)

NextRace == Read \/ Write

SpecRace == Init /\ [][NextRace]_vars

----------------------------------------------------------------------------
(* Properties                                                              *)

\* The last store call was a load: it was given no new table.
IsLoad == call.fn # "none" /\ Len(call.new_df) = 0

\* The last store call was a merge: it was given a table to fold in (for the
\* stats function: with append=True and a table that is not empty).
IsMerge ==
    /\ call.fn # "none"
    /\ Len(call.new_df) > 0
    /\ call.table = "stats" => call.append /\ ~IsEmpty(call.new_df[1])

\* C1: a stats merge (append=True, non-empty new table) removes every stored
\* row whose matchId occurs in the new table before it appends the new rows:
\* the combined table it returns, and the table stored once it is written,
\* hold for those matches exactly the rows of this merge, also when an
\* earlier merge had stored other rows for them.
C1_StatsReplaceOnReMerge ==
    (IsMerge /\ call.table = "stats") =>
        LET new_df == call.new_df[1]
            ids == Unique(new_df, "matchId")
        IN  /\ call.result.exc = "None"
            /\ KeepIsin(call.result.value, "matchId", ids).rows = new_df.rows
            /\ call.wr = "ok" =>
                  /\ fs["stats"].state = "ok"
                  /\ KeepIsin(fs["stats"].df, "matchId", ids).rows = new_df.rows

\* A stats merge of a match whose earlier, different rows were stored.
C1_Witness ==
    /\ IsMerge /\ call.table = "stats" /\ call.wr = "ok"
    /\ call.before.state = "ok"
    /\ LET old == KeepIsin(call.before.df, "matchId",
                           Unique(call.new_df[1], "matchId")).rows
       IN  Len(old) > 0 /\ old # call.new_df[1].rows

\* C2: after a successful merge of a new events (qualifiers) table, the
\* stored rows of the incoming match (the rows with its match_id; for
\* qualifiers, with the event_ids of the new table) are exactly the new
\* rows: the rows stored earlier for it were deleted, none is duplicated.
C2_EventsReplaceOnReMerge ==
    (IsMerge /\ call.table \in {"events", "qualifiers"}
             /\ call.result.exc = "None") =>
        LET key == IF call.table = "events" THEN "match_id" ELSE "event_id"
            new_df == call.new_df[1]
        IN  KeepIsin(fs[call.table].df, key, Unique(new_df, key)).rows
                = new_df.rows

\* C3: the stored metadata table holds at most one row per match identifier.
C3_MetadataOneRowPerMatch ==
    LET rows == fs["metadata"].df.rows
    IN  \A i, j \in DOMAIN rows :
            Cell(rows[i], "match_id") = Cell(rows[j], "match_id") => i = j

C5_ReturnedTableIsStored ==
    (IsMerge /\ call.result.exc = "None") =>
        fs[call.table] = ParquetFile(call.result.value)

\* C6: when the stored stats file exists and cannot be read, the call of
\* load_and_save_stats raises and leaves the file as it was.
C6_StatsReadFailureSurfaced ==
    (call.fn = "load_and_save_stats" /\ call.before.state = "corrupt") =>
        /\ call.result.exc # "None"
        /\ fs["stats"] = call.before

\* C7: a load of a table whose file does not exist raises FileNotFoundError.
C7_NotFoundOnLoad ==
    (IsLoad /\ call.before.state = "absent") =>
        call.result.exc = "FileNotFoundError"

\* C8: a load with no new data leaves an existing file as it is and, when the
\* file is readable, returns exactly the table stored in it.
C8_LoadIsReadOnly ==
    (IsLoad /\ Exists(call.before)) =>
        /\ fs[call.table] = call.before
        /\ call.before.state = "ok" => call.result = Ok(call.before.df)

\* A load of a table that earlier merges have filled with two rows.
C8_Witness ==
    /\ IsLoad
    /\ call.before.state = "ok"
    /\ Len(call.before.df.rows) = 2
    /\ call.result = Ok(fs[call.table].df)

C10_CatalogDefaultOnMiss ==
    /\ lookup.op = "get_type_name" =>
          /\ lookup.result.exc = "None"
          /\ lookup.result.value =
                IF lookup.code \in DOMAIN EVENT_TYPES
                THEN EVENT_TYPES[lookup.code].name
                ELSE "Unknown (ID: " \o ToString(lookup.code) \o ")"
    /\ lookup.op = "get_qualifier_name" =>
          /\ lookup.result.exc = "None"
          /\ lookup.result.value =
                IF lookup.code \in DOMAIN QUALIFIERS
                THEN QUALIFIERS[lookup.code].name
                ELSE "Unknown (ID: " \o ToString(lookup.code) \o ")"

\* The event-type code 26, which the table lacks, was looked up.
C10_Witness ==
    /\ lookup.op = "get_type_name"
    /\ lookup.code = 26
    /\ lookup.result = Ok("Unknown (ID: 26)")

\* The payload lacks a section extract_match_metadata requires.
MissingRequiredSection(raw) ==
    \/ "matchInfo" \notin DOMAIN raw
    \/ "liveData" \notin DOMAIN raw
    \/ "matchDetails" \notin DOMAIN raw.liveData

\* The last parser call was the method fn of an EventsDataParser.
IsMethod(fn) == call.fn = fn /\ "raw_data" \in DOMAIN call.before

\* C11: on a payload lacking matchInfo, liveData or liveData.matchDetails,
\* extract_match_metadata raises KeyError, returns no record and leaves
\* match_metadata as it was; the constructor that runs it raises likewise and
\* leaves no parser holding a record.
C11_MissingSectionFailsHard ==
    /\ (IsMethod("extract_match_metadata")
        /\ MissingRequiredSection(call.before.raw_data[1])) =>
          /\ call.result = Raise("KeyError")
          /\ parser.match_metadata = call.before.match_metadata
          /\ parser.match_metadata = NewDict
    /\ (call.fn = "__init__" /\ "via" \in DOMAIN call /\ call.via = "object"
        /\ MissingRequiredSection(call.data)) =>
          /\ call.result = Raise("KeyError")
          /\ parser = NoParser

\* extract_match_metadata raised on a payload that has matchInfo and lacks
\* liveData.matchDetails: the matchInfo fields it had collected are dropped.
C11_Witness ==
    /\ IsMethod("extract_match_metadata")
    /\ "matchInfo" \in DOMAIN call.before.raw_data[1]
    /\ "liveData" \in DOMAIN call.before.raw_data[1]
    /\ "matchDetails" \notin DOMAIN call.before.raw_data[1].liveData
    /\ call.result = Raise("KeyError")
    /\ Len(parser.match_metadata.keys) = 0

\* The contestant entries of a matchInfo block tagged with the position side.
Side(match_info, side) ==
    SelectSeq(DictGet(match_info, "contestant", <<>>),
              LAMBDA c : "position" \in DOMAIN c /\ c.position = side)

\* The record md holds for the side exactly the id and name of the last
\* contestant tagged with it, and no field of the side when none is.
SideFields(md, match_info, side) ==
    LET tagged == Side(match_info, side)
        id == side \o "_team_id"
        name == side \o "_team_name"
    IN  IF Len(tagged) = 0
        THEN id \notin DOMAIN md.map /\ name \notin DOMAIN md.map
        ELSE /\ Get(md.map, id) = <<DictGet(tagged[Len(tagged)], "id", "")>>
             /\ Get(md.map, name) = <<DictGet(tagged[Len(tagged)], "name", "")>>

\* C12: on a payload that has matchInfo and liveData.matchDetails,
\* extract_match_metadata succeeds whatever optional blocks are missing; the
\* record has the home (away) id and name of the contestant tagged home
\* (away), and a contestant with another or no position adds no field.
C12_RecoverableAbsences ==
    (IsMethod("extract_match_metadata")
     /\ ~MissingRequiredSection(call.before.raw_data[1])) =>
        LET match_info == call.before.raw_data[1].matchInfo
        IN  /\ call.result.exc = "None"
            /\ parser.match_metadata = call.result.value
            /\ SideFields(call.result.value, match_info, "home")
            /\ SideFields(call.result.value, match_info, "away")
            /\ Get(call.result.value.map, "match_id")
                  = <<DictGet(match_info, "id", "")>>

\* An extraction from a payload without competition, venue and scores whose
\* only contestant is an official.
C12_Witness ==
    /\ IsMethod("extract_match_metadata")
    /\ ~MissingRequiredSection(call.before.raw_data[1])
    /\ LET match_info == call.before.raw_data[1].matchInfo
       IN  /\ DOMAIN match_info = {"week", "contestant"}
           /\ Len(match_info.contestant) = 1
           /\ match_info.contestant[1].position = "official"
    /\ "scores" \notin DOMAIN call.before.raw_data[1].liveData.matchDetails
    /\ call.result.exc = "None"
    /\ "away_team_id" \notin DOMAIN call.result.value.map

\* The payload has no event list at liveData.event.
MissingEventData(raw) ==
    "liveData" \notin DOMAIN raw \/ "event" \notin DOMAIN raw.liveData

\* C13: on a payload without liveData or liveData.event,
\* parse_events_and_qualifiers raises ValueError and leaves the parser, its
\* df_events and df_qualifiers included, as it was.
C13_MissingEventListFailsHard ==
    (IsMethod("parse_events_and_qualifiers")
     /\ MissingEventData(call.before.raw_data[1])) =>
        /\ call.result = Raise("ValueError")
        /\ parser.df_events = call.before.df_events
        /\ parser.df_qualifiers = call.before.df_qualifiers
        /\ parser = call.before

\* parse_events_and_qualifiers raised on a payload with matchInfo, liveData
\* and matchDetails and without an event list.
C13_Witness ==
    /\ IsMethod("parse_events_and_qualifiers")
    /\ ~MissingRequiredSection(call.before.raw_data[1])
    /\ "event" \notin DOMAIN call.before.raw_data[1].liveData
    /\ call.result = Raise("ValueError")
    /\ Len(parser.df_events) = 0

\* Some event of the list has a timeStamp that does not parse as ISO 8601.
MalformedValue(events_raw) ==
    \E i \in DOMAIN events_raw :
        /\ "timeStamp" \in DOMAIN events_raw[i]
        /\ events_raw[i].timeStamp \notin DOMAIN ISO8601

\* C14: when some raw event's timeStamp does not parse,
\* parse_events_and_qualifiers raises and returns no table: ValueError from
\* the conversion, or KeyError earlier when no metadata was extracted.
C14_MalformedTimestampRejectsMatch ==
    (IsMethod("parse_events_and_qualifiers")
     /\ ~MissingEventData(call.before.raw_data[1])
     /\ MalformedValue(call.before.raw_data[1].liveData.event)) =>
        /\ call.result.exc \in {"ValueError", "KeyError"}
        /\ "value" \notin DOMAIN call.result
        /\ "match_id" \in Range(call.before.match_metadata.keys)
              => call.result = Raise("ValueError")

\* A list of a well-formed event followed by one with a malformed timeStamp
\* was rejected by the conversion.
C14_Witness ==
    /\ IsMethod("parse_events_and_qualifiers")
    /\ ~MissingEventData(call.before.raw_data[1])
    /\ LET events_raw == call.before.raw_data[1].liveData.event
       IN  /\ Len(events_raw) = 2
           /\ ~MalformedValue(SubSeq(events_raw, 1, 1))
           /\ MalformedValue(events_raw)
    /\ call.result = Raise("ValueError")

\* The last call was a parse_events_and_qualifiers that returned its tables.
Normalised == IsMethod("parse_events_and_qualifiers") /\ call.result.exc = "None"

\* The raw event list the last parse_events_and_qualifiers call read.
RawEvents == call.before.raw_data[1].liveData.event

\* Every event of the list has an id and no two events share one.
UniqueEventIds(events_raw) ==
    \A i, j \in DOMAIN events_raw :
        /\ "id" \in DOMAIN events_raw[i]
        /\ events_raw[i].id = events_raw[j].id => i = j

\* C15: for a payload whose events have ids unique within the match, each
\* row of the Qualifier table returned by parse_events_and_qualifiers has the
\* event_id of exactly one row of the Event table returned with it.
C15_QualifierReferencesOneEvent ==
    (Normalised /\ UniqueEventIds(RawEvents)) =>
        LET df_events == call.result.value[1]
            df_qualifiers == call.result.value[2]
        IN  \A j \in DOMAIN df_qualifiers.rows :
                Cardinality({i \in DOMAIN df_events.rows :
                                Cell(df_events.rows[i], "id")
                                    = Cell(df_qualifiers.rows[j], "event_id")}) = 1

\* Two events with ids of their own, the second with three qualifiers.
C15_Witness ==
    /\ Normalised /\ UniqueEventIds(RawEvents)
    /\ Len(call.result.value[1].rows) = 2
    /\ Len(call.result.value[2].rows) >= 3
    /\ Cell(call.result.value[2].rows[3], "event_id") = <<102>>

\* The sum over the raw events of the length of the event's qualifier list.
RECURSIVE QualifierCount(_)
QualifierCount(events_raw) ==
    IF Len(events_raw) = 0 THEN 0
    ELSE Len(DictGet(events_raw[1], "qualifier", <<>>))
         + QualifierCount(Tail(events_raw))

\* C16: for a payload with an event list (timestamps parseable, metadata
\* extracted), parse_events_and_qualifiers returns a Qualifier table with as
\* many rows as the raw events have qualifier entries together, also when
\* the event list is empty.
C16_QualifierRowCount ==
    (IsMethod("parse_events_and_qualifiers")
     /\ ~MissingEventData(call.before.raw_data[1])
     /\ ~MalformedValue(RawEvents)
     /\ "match_id" \in Range(call.before.match_metadata.keys)) =>
        /\ call.result.exc = "None"
        /\ Len(call.result.value[2].rows) = QualifierCount(RawEvents)

\* C17: parse_events_and_qualifiers returns one Event row per raw event, the
\* i-th row made from the i-th raw event (its id, type code, period, minute,
\* second, outcome), with the type_name the catalog gives its typeId.
C17_OneEventRowPerRawEvent ==
    Normalised =>
        LET rows == call.result.value[1].rows
        IN  /\ Len(rows) = Len(RawEvents)
            /\ \A i \in DOMAIN rows :
                  /\ Cell(rows[i], "id") = Get(RawEvents[i], "id")
                  /\ Cell(rows[i], "type_id") = Get(RawEvents[i], "typeId")
                  /\ Cell(rows[i], "minute") = Get(RawEvents[i], "timeMin")
                  /\ Cell(rows[i], "second") = Get(RawEvents[i], "timeSec")
                  /\ Cell(rows[i], "outcome") = Get(RawEvents[i], "outcome")
                  /\ "timestamp" \in DOMAIN rows[i]
                        <=> "timeStamp" \in DOMAIN RawEvents[i]
                  /\ rows[i].type_name =
                        IF RawEvents[i].typeId \in DOMAIN EVENT_TYPES
                        THEN EVENT_TYPES[RawEvents[i].typeId].name
                        ELSE "Unknown (ID: " \o ToString(RawEvents[i].typeId) \o ")"

\* Two events sharing id, minute and second, a goal and then a pass, came
\* out as two rows in that order.
C17_Witness ==
    /\ Normalised
    /\ Len(RawEvents) = 2
    /\ Get(RawEvents[1], "id") = <<100>> /\ Get(RawEvents[2], "id") = <<100>>
    /\ RawEvents[1].timeMin = RawEvents[2].timeMin
    /\ RawEvents[1].typeId = 16 /\ RawEvents[2].typeId = 1
    /\ call.result.value[1].rows[1].type_name = "Goal"
    /\ call.result.value[1].rows[2].type_name = "Pass"

\* C18: every Event row returned by parse_events_and_qualifiers has the
\* match_id of the parser's metadata record, which is the one extracted
\* from the payload the rows come from.
C18_EventMatchIdIsMetadataMatchId ==
    Normalised =>
        LET rows == call.result.value[1].rows
            match_info == call.before.raw_data[1].matchInfo
        IN  \A i \in DOMAIN rows :
                /\ Cell(rows[i], "match_id")
                      = Get(parser.match_metadata.map, "match_id")
                /\ Cell(rows[i], "match_id") = <<DictGet(match_info, "id", "")>>
                /\ extract_match_metadata(parser.raw_data).exc = "None"

\* Two Event rows carrying the match id M1 of their payload.
C18_Witness ==
    /\ Normalised
    /\ Len(call.result.value[1].rows) = 2
    /\ call.result.value[1].rows[2].match_id = "M1"
    /\ parser.match_metadata.map.match_id = "M1"

\* The last call was an extract_lineup_data on a payload with a lineUp list.
Extracted ==
    /\ call.fn = "extract_lineup_data"
    /\ "liveData" \in DOMAIN call.before.match_data
    /\ "lineUp" \in DOMAIN call.before.match_data.liveData

\* The player entries of a lineUp list, team after team.
RECURSIVE LineUpPlayers(_)
LineUpPlayers(lineup) ==
    IF Len(lineup) = 0 THEN <<>>
    ELSE DictGet(lineup[1], "player", <<>>) \o LineUpPlayers(Tail(lineup))

\* The statistic names of a player entry.
StatNames(player) == {s.type : s \in Range(DictGet(player, "stat", <<>>))}

\* The six identity columns.
IdentityColumns ==
    <<"matchId", "team_id", "playerId", "matchName", "shirtNumber", "position">>

\* C19: the table extract_lineup_data returns has one row per player over
\* one column set, the six identity columns and every statistic name seen
\* on any player of the match, each once; the row of a player that lacks a
\* statistic has a null in that column.
C19_UniformStatsSchema ==
    Extracted =>
        LET df == call.result.value
            players == LineUpPlayers(call.before.match_data.liveData.lineUp)
            names == UNION {StatNames(players[i]) : i \in DOMAIN players}
        IN  /\ Range(df.cols) = Range(IdentityColumns) \cup names
            /\ Len(df.cols) = 6 + Cardinality(names)
            /\ Len(df.rows) = Len(players)
            /\ \A i \in DOMAIN df.rows :
                  /\ DOMAIN df.rows[i] \subseteq Range(df.cols)
                  /\ Cell(df.rows[i], "playerId") = Get(players[i], "playerId")
                  /\ \A n \in names \ StatNames(players[i]) :
                        Cell(df.rows[i], n) = <<>>

\* Two players with different statistics: each row has a value in a column
\* where the other has a null.
C19_Witness ==
    /\ Extracted
    /\ Len(call.result.value.rows) = 2
    /\ "goals" \in DOMAIN call.result.value.rows[1]
    /\ "goals" \notin DOMAIN call.result.value.rows[2]
    /\ "accuratePass" \in DOMAIN call.result.value.rows[2]
    /\ "accuratePass" \notin DOMAIN call.result.value.rows[1]
    /\ {"goals", "accuratePass"} \subseteq Range(call.result.value.cols)

\* The statistic name a sorts before the name b.
SortsBefore(a, b) ==
    \E i, j \in DOMAIN StatNameOrder :
        StatNameOrder[i] = a /\ StatNameOrder[j] = b /\ i < j

\* C20: the columns of the table extract_lineup_data returns are matchId,
\* team_id, playerId, matchName, shirtNumber, position, then the statistic
\* names in sorted order, whatever the order of the teams, players and
\* statistic entries in the payload.
C20_DeterministicColumnOrder ==
    Extracted =>
        LET cols == call.result.value.cols
        IN  /\ Len(cols) >= 6
            /\ SubSeq(cols, 1, 6) = IdentityColumns
            /\ \A i, j \in 7 .. Len(cols) : i < j => SortsBefore(cols[i], cols[j])

\* The first player of the payload lists totalPass before accuratePass; the
\* table has accuratePass first.
C20_Witness ==
    /\ Extracted
    /\ LET players == LineUpPlayers(call.before.match_data.liveData.lineUp)
       IN  /\ Len(players) > 0
           /\ "stat" \in DOMAIN players[1]
           /\ Len(players[1].stat) = 2
           /\ players[1].stat[1].type = "totalPass"
           /\ players[1].stat[2].type = "accuratePass"
    /\ call.result.value.cols[7] = "accuratePass"

\* The matchstats payload has no lineUp list at liveData.lineUp.
MissingLineUp(match_data) ==
    "liveData" \notin DOMAIN match_data
    \/ "lineUp" \notin DOMAIN match_data.liveData

\* C21: on a payload without liveData or liveData.lineUp, extract_lineup_data
\* and parse return a table without rows instead of raising, and the parser
\* has recorded no team and no statistic name.
C21_MissingLineUpIsRecoverable ==
    (call.fn \in {"extract_lineup_data", "parse"}
     /\ MissingLineUp(call.before.match_data)) =>
        /\ call.result.exc = "None"
        /\ "rows" \in DOMAIN call.result.value
        /\ Len(call.result.value.rows) = 0
        /\ IsEmpty(call.result.value)
        /\ DOMAIN parser.teams = {}
        /\ parser.all_stats_columns = {}

\* parse returned the empty table for a payload that has liveData and no
\* lineUp.
C21_Witness ==
    /\ call.fn = "parse"
    /\ "liveData" \in DOMAIN call.before.match_data
    /\ MissingLineUp(call.before.match_data)
    /\ call.result = Ok(EmptyDataFrame)
    /\ parser.match_id = <<"M1">>

\* The last store call was a stats merge, written, of matches that are not
\* in the readable, non-empty table stored before it.
MergedOtherMatch ==
    /\ IsMerge /\ call.table = "stats" /\ call.wr = "ok"
    /\ call.before.state = "ok" /\ ~IsEmpty(call.before.df)
    /\ Unique(call.before.df, "matchId") \cap Unique(call.new_df[1], "matchId") = {}

\* C22: a stats merge of a match into a stored table of other matches stores
\* the earlier rows followed by the new ones over the union of both column
\* sets, each column once; the earlier rows are null in the columns only the
\* new table has, and the new rows in the columns only the stored one had.
C22_ColumnUnionAcrossMatches ==
    MergedOtherMatch =>
        LET old == call.before.df
            new == call.new_df[1]
            df == fs["stats"].df
        IN  /\ Range(df.cols) = Range(old.cols) \cup Range(new.cols)
            /\ Len(df.cols) = Cardinality(Range(old.cols) \cup Range(new.cols))
            /\ df.rows = old.rows \o new.rows
            /\ call.result = Ok(df)
            /\ \A i \in DOMAIN df.rows :
                  \A c \in Range(df.cols) :
                      c \in DOMAIN df.rows[i] =>
                          c \in Range(IF i <= Len(old.rows) THEN old.cols
                                      ELSE new.cols)

\* M1 with three statistic columns, then M2 with two others: five statistic
\* columns beside the six identity columns, M1's row null in M2's columns
\* and M2's row null in M1's.
C22_Witness ==
    /\ MergedOtherMatch
    /\ Unique(call.before.df, "matchId") = {<<"M1">>}
    /\ Unique(call.new_df[1], "matchId") = {<<"M2">>}
    /\ Len(call.before.df.cols) = 6 + 3
    /\ Len(call.new_df[1].cols) = 6 + 2
    /\ Len(fs["stats"].df.cols) = 6 + 5
    /\ Len(fs["stats"].df.rows) = 2
    /\ Cell(fs["stats"].df.rows[1], "totalPass") = <<>>
    /\ Cell(fs["stats"].df.rows[1], "goals") = <<1>>
    /\ Cell(fs["stats"].df.rows[2], "goals") = <<>>
    /\ Cell(fs["stats"].df.rows[2], "totalPass") = <<90>>

\* The scenario payload: two contestants, one tagged home and one away, both
\* with id and name; a pass (typeId 1) with the one qualifier (1, "1"), then
\* a goal (typeId 16) without qualifiers.
Scenario(raw) ==
    /\ ~MissingRequiredSection(raw) /\ ~MissingEventData(raw)
    /\ Len(DictGet(raw.matchInfo, "contestant", <<>>)) = 2
    /\ Len(Side(raw.matchInfo, "home")) = 1
    /\ Len(Side(raw.matchInfo, "away")) = 1
    /\ \A i \in 1 .. 2 : {"id", "name"} \subseteq DOMAIN raw.matchInfo.contestant[i]
    /\ Len(raw.liveData.event) = 2
    /\ ~MalformedValue(raw.liveData.event)
    /\ raw.liveData.event[1].typeId = 1
    /\ DictGet(raw.liveData.event[1], "qualifier", <<>>)
          = << [qualifierId |-> 1, value |-> "1"] >>
    /\ raw.liveData.event[2].typeId = 16
    /\ Len(DictGet(raw.liveData.event[2], "qualifier", <<>>)) = 0

\* C23: on the scenario payload the metadata record holds the id and name of
\* the home and of the away contestant; with the metadata extracted, the
\* Event table has two rows named Pass and Goal in that order and the
\* Qualifier table one row, Long ball with value "1", tagged with the id of
\* the pass.
C23_EndToEndScenario ==
    /\ (IsMethod("extract_match_metadata")
        /\ Scenario(call.before.raw_data[1])) =>
          LET match_info == call.before.raw_data[1].matchInfo
              md == call.result.value.map
          IN  /\ call.result.exc = "None"
              /\ md.home_team_id = Side(match_info, "home")[1].id
              /\ md.home_team_name = Side(match_info, "home")[1].name
              /\ md.away_team_id = Side(match_info, "away")[1].id
              /\ md.away_team_name = Side(match_info, "away")[1].name
    /\ (IsMethod("parse_events_and_qualifiers")
        /\ Scenario(call.before.raw_data[1])
        /\ "match_id" \in Range(call.before.match_metadata.keys)) =>
          /\ call.result.exc = "None"
          /\ LET df_events == call.result.value[1]
                 df_qualifiers == call.result.value[2]
             IN  /\ Len(df_events.rows) = 2
                 /\ df_events.rows[1].type_name = "Pass"
                 /\ df_events.rows[2].type_name = "Goal"
                 /\ Len(df_qualifiers.rows) = 1
                 /\ df_qualifiers.rows[1].qualifier_name = "Long ball"
                 /\ df_qualifiers.rows[1].value = "1"
                 /\ Cell(df_qualifiers.rows[1], "event_id")
                       = Get(RawEvents[1], "id")
                 /\ Cell(df_qualifiers.rows[1], "event_id")
                       = Cell(df_events.rows[1], "id")

\* The scenario payload normalised by a parser holding Home FC and Away FC:
\* the one Qualifier row is tagged with the pass's id 101.
C23_Witness ==
    /\ Normalised
    /\ Scenario(call.before.raw_data[1])
    /\ Get(parser.match_metadata.map, "home_team_name") = <<"Home FC">>
    /\ Get(parser.match_metadata.map, "away_team_id") = <<"T2">>
    /\ Cell(call.result.value[2].rows[1], "event_id") = <<101>>
    /\ Cell(call.result.value[1].rows[2], "id") = <<102>>

\* The rows of match m in the stored table t.
StoredRowsOf(t, m) == KeepIsin(fs[t].df, MatchColumn(t), {<<m>>}).rows

\* A lost update: a match was merged into a shared table and the stored table
\* has no row of it.
LostUpdate ==
    \E t \in SharedTables, m \in MatchIds :
        Len(procs.last[t][m]) > 0 /\ Len(StoredRowsOf(t, m)) = 0

\* C24: a merge reads the whole file and later writes the whole file with
\* nothing excluding other processes in between; the stored table lacks the
\* rows of a merged match only when some process read the table while another
\* was between its read and its write of it.  Merges that do not overlap, as
\* those of a single process, lose nothing.
C24_LostUpdateOnlyWhenRaced == LostUpdate => procs.raced

\* Two processes merged M1 and M2 into one table, both reading before either
\* wrote: the stored table has the rows of M2 and none of M1.
C24_Witness ==
    /\ \A p \in Procs : procs.at[p].pc = "idle"
    /\ procs.raced
    /\ \E t \in SharedTables :
          /\ Len(procs.last[t]["M1"]) > 0
          /\ Len(procs.last[t]["M2"]) > 0
          /\ Len(StoredRowsOf(t, "M1")) = 0
          /\ StoredRowsOf(t, "M2") = procs.last[t]["M2"][1]

\* C25: a stats merge that wrote over the table it had read leaves the rows
\* of every match that is not in the new table as they were, in content and
\* order; and while no merges overlapped, the stored rows of each match are
\* the rows of the latest merge that held the match.
C25_MergeTouchesOnlyIncomingMatch ==
    /\ (call.fn = "load_and_save_stats" /\ "seen" \in DOMAIN call
        /\ call.seen = call.before /\ call.before.state = "ok") =>
          LET ids == Unique(call.new_df[1], "matchId")
          IN  DropIsin(fs["stats"].df, "matchId", ids).rows
                 = DropIsin(call.before.df, "matchId", ids).rows
    /\ ~procs.raced =>
          \A m \in MatchIds :
              StoredRowsOf("stats", m) =
                  IF Len(procs.last["stats"][m]) = 0 THEN <<>>
                  ELSE procs.last["stats"][m][1]

\* With no overlap, M1 was merged, then M2, then M1 again with other rows:
\* M2's row is stored first and unchanged, followed by M1's latest rows.
C25_Witness ==
    /\ ~procs.raced
    /\ call.fn = "load_and_save_stats" /\ "seen" \in DOMAIN call
    /\ call.before.state = "ok"
    /\ Unique(call.before.df, "matchId") = {<<"M1">>, <<"M2">>}
    /\ Unique(call.new_df[1], "matchId") = {<<"M1">>}
    /\ StoredRowsOf("stats", "M1") = call.new_df[1].rows
    /\ StoredRowsOf("stats", "M1") # KeepIsin(call.before.df, "matchId", {<<"M1">>}).rows
    /\ Len(StoredRowsOf("stats", "M2")) = 1
    /\ fs["stats"].df.rows[1] = StoredRowsOf("stats", "M2")[1]

\* The row of the Qualifier table where the j-th qualifier entry of the i-th
\* raw event belongs: after the entries of the earlier events and the
\* earlier entries of its own event.
QualifierPosition(events_raw, i, j) ==
    QualifierCount(SubSeq(events_raw, 1, i - 1)) + j

\* C26: the Qualifier table returned by parse_events_and_qualifiers has one
\* row per qualifier entry, the entries of earlier events before those of
\* later events and the entries of one event in the order of its list; an
\* entry repeating a qualifierId of its event has a row of its own, and each
\* row carries its entry's event id, code and value and the catalog's name
\* for the code.
C26_QualifierRowsKeepFeedOrder ==
    Normalised =>
        LET df_qualifiers == call.result.value[2]
        IN  /\ Len(df_qualifiers.rows) = QualifierCount(RawEvents)
            /\ \A i \in DOMAIN RawEvents :
                 \A j \in DOMAIN DictGet(RawEvents[i], "qualifier", <<>>) :
                    LET q == RawEvents[i].qualifier[j]
                        row == df_qualifiers.rows[QualifierPosition(RawEvents, i, j)]
                    IN  /\ Cell(row, "event_id") = Get(RawEvents[i], "id")
                        /\ Cell(row, "qualifier_id") = Get(q, "qualifierId")
                        /\ Cell(row, "value") = Get(q, "value")
                        /\ Cell(row, "qualifier_name")
                              = <<get_qualifier_name(q.qualifierId).value>>

\* A pass with one qualifier, then an event with the code 1 twice (once with
\* a value, once without) and a code the catalog does not have: four rows in
\* that order.
C26_Witness ==
    /\ Normalised
    /\ Len(RawEvents) = 2
    /\ Len(call.result.value[2].rows) = 4
    /\ Cell(call.result.value[2].rows[1], "event_id") = <<101>>
    /\ Cell(call.result.value[2].rows[2], "event_id") = <<102>>
    /\ Cell(call.result.value[2].rows[2], "qualifier_id") = <<1>>
    /\ Cell(call.result.value[2].rows[2], "value") = <<"0">>
    /\ Cell(call.result.value[2].rows[3], "event_id") = <<102>>
    /\ Cell(call.result.value[2].rows[3], "qualifier_id") = <<1>>
    /\ Cell(call.result.value[2].rows[3], "value") = <<>>
    /\ Cell(call.result.value[2].rows[3], "qualifier_name") = <<"Long ball">>
    /\ Cell(call.result.value[2].rows[4], "qualifier_id") = <<999>>
    /\ Cell(call.result.value[2].rows[4], "qualifier_name") # <<"Long ball">>

\* The last call of load_and_save_stats was no effective merge: append was
\* False, or the new table was None or empty.
IneffectiveStatsCall ==
    /\ call.fn = "load_and_save_stats"
    /\ ~(call.append /\ Len(call.new_df) > 0 /\ ~IsEmpty(call.new_df[1]))

\* C27: load_and_save_stats called with append=False, or with a new table
\* that is None or empty, leaves the stored stats table as it was and
\* returns it (an empty table when no file is stored); the rows of a stored
\* match survive the merge of an empty table for that match.
C27_OnlyEffectiveMergeWrites ==
    IneffectiveStatsCall =>
        /\ fs["stats"] = call.before
        /\ call.result.exc = "None"
        /\ call.before.state = "ok" => call.result.value = call.before.df
        /\ call.before.state = "absent" => IsEmpty(call.result.value)

\* The empty stats table of a match without lineUp is merged with
\* append=True while rows of M1 are stored: they stay stored and are returned.
C27_Witness ==
    /\ IneffectiveStatsCall
    /\ call.append
    /\ Len(call.new_df) > 0
    /\ call.before.state = "ok"
    /\ <<"M1">> \in Unique(call.before.df, "matchId")
    /\ fs["stats"] = call.before
    /\ call.result.value.rows = call.before.df.rows

\* C28: after EventsDataParser is constructed from a payload with the
\* required sections, given in memory or loaded from file_path, the
\* constructor has succeeded and match_metadata holds the record extracted
\* from the payload.
C28_ReadyAfterConstruction ==
    (call.fn = "__init__" /\ "via" \in DOMAIN call
     /\ ~MissingRequiredSection(call.data)) =>
        /\ call.result.exc = "None"
        /\ parser.match_metadata = extract_match_metadata(<<call.data>>).value

\* C29: on a payload whose liveData.event is present and empty,
\* parse_events_and_qualifiers returns an Event table and a Qualifier table
\* with zero rows each.
C29_EmptyEventListIsValid ==
    (IsMethod("parse_events_and_qualifiers")
     /\ ~MissingEventData(call.before.raw_data[1])
     /\ Len(RawEvents) = 0) =>
        /\ call.result.exc = "None"
        /\ Len(call.result.value[1].rows) = 0
        /\ Len(call.result.value[2].rows) = 0

\* C30: when parse_events_and_qualifiers raises because a timeStamp does not
\* parse, the parser's df_events and df_qualifiers are what they were before
\* the call.
C30_NoPartialStateAfterFailedNormalization ==
    (IsMethod("parse_events_and_qualifiers")
     /\ ~MissingEventData(call.before.raw_data[1])
     /\ MalformedValue(RawEvents)
     /\ call.result = Raise("ValueError")) =>
        /\ parser.df_events = call.before.df_events
        /\ parser.df_qualifiers = call.before.df_qualifiers

=============================================================================
